---- MODULE Spec2Model ----
(***************************************************************************)
(* brewtils schema compiler (src/brewtils/decorators.py): the decorators   *)
(* that attach raw Command / Parameter metadata to methods, parse_client,  *)
(* the signature merge (_initialize_command), the parameter normalizer     *)
(* (_initialize_parameter, _generate_nested_params, _format_type,          *)
(* _format_choices, _validate_kwargness) and the display resolver.         *)
(*                                                                         *)
(* Python objects are mutable and shared by reference, so Parameters and   *)
(* Commands live in heaps (sequences indexed by object id) and lists hold  *)
(* ids.  Python values are tagged records [t |-> tag, v |-> payload];      *)
(* strings whose characters the code inspects are tuples of characters.    *)
(***************************************************************************)
EXTENDS Integers, Sequences, FiniteSets, TLC

VARIABLES
    heap,        \* Parameter objects: heap[id] is the object's fields
    cmds,        \* Command objects: cmds[id] is the object's fields
    models,      \* model classes: models[i] is the class's `parameters` list
    methods,     \* the client's methods: signature and attached metadata
    phase,       \* "decorate" until the client is first compiled, then "compiled"
    runs,        \* one record per parse_client call, in call order
    last,        \* the most recent _initialize_parameter call made directly
    outputs,     \* id -> value of the Parameter a direct call last returned for it
    modelInit,   \* value of every model's parameter list when the class was defined
    plugins,     \* the Plugin objects constructed, in construction order
    registry,    \* what the registry holds, and the calls it has answered
    threads      \* the threads of the running plugins: position and locals

vars == <<heap, cmds, models, methods, phase, runs, last, outputs, modelInit, plugins,
          registry, threads>>

----------------------------------------------------------------------------
(* Python values *)

PyNone == [t |-> "none"]
PyTrue == [t |-> "bool", v |-> TRUE]
PyFalse == [t |-> "bool", v |-> FALSE]
PyInt(n) == [t |-> "int", v |-> n]
PyStr(s) == [t |-> "str", v |-> s]
PyList(s) == [t |-> "list", v |-> s]
PyDict(f) == [t |-> "dict", v |-> f]
PyType(n) == [t |-> "type", v |-> n]
EmptyDict == PyDict(<<>>)

\* Python truthiness (bool(x)) of a value
Truthy(x) ==
    CASE x.t = "none" -> FALSE
      [] x.t = "bool" -> x.v
      [] x.t = "int" -> x.v # 0
      [] x.t = "str" -> Len(x.v) > 0
      [] x.t = "list" -> Len(x.v) > 0
      [] x.t = "dict" -> DOMAIN x.v # {}
      [] OTHER -> TRUE

IsString(x) == x.t = "str"

----------------------------------------------------------------------------
(* Strings: str.lower, str.title, str.startswith, str() *)

LowerLetters ==
    <<"a","b","c","d","e","f","g","h","i","j","k","l","m",
      "n","o","p","q","r","s","t","u","v","w","x","y","z">>
UpperLetters ==
    <<"A","B","C","D","E","F","G","H","I","J","K","L","M",
      "N","O","P","Q","R","S","T","U","V","W","X","Y","Z">>

IndexIn(letters, c) ==
    IF \E i \in DOMAIN letters : letters[i] = c
    THEN CHOOSE i \in DOMAIN letters : letters[i] = c
    ELSE 0

IsLetter(c) == IndexIn(LowerLetters, c) > 0 \/ IndexIn(UpperLetters, c) > 0
LowerChar(c) == IF IndexIn(UpperLetters, c) > 0 THEN LowerLetters[IndexIn(UpperLetters, c)] ELSE c
UpperChar(c) == IF IndexIn(LowerLetters, c) > 0 THEN UpperLetters[IndexIn(LowerLetters, c)] ELSE c

Lower(s) == [i \in DOMAIN s |-> LowerChar(s[i])]

\* str.title(): a letter is upper-cased when it follows a non-letter (or starts
\* the string) and lower-cased when it follows a letter
Title(s) ==
    [i \in DOMAIN s |->
        IF i > 1 /\ IsLetter(s[i - 1]) THEN LowerChar(s[i]) ELSE UpperChar(s[i])]

StartsWith(s, prefix) ==
    /\ Len(s) >= Len(prefix)
    /\ \A i \in DOMAIN prefix : s[i] = prefix[i]

sHttp == <<"h","t","t","p">>
sFile == <<"f","i","l","e">>
sDatetime == <<"d","a","t","e","t","i","m","e">>
sNone == <<"N","o","n","e">>
sTrue == <<"T","r","u","e">>
sFalse == <<"F","a","l","s","e">>
sString == <<"S","t","r","i","n","g">>
sInteger == <<"I","n","t","e","g","e","r">>
sFloat == <<"F","l","o","a","t">>
sBoolean == <<"B","o","o","l","e","a","n">>
sDictionary == <<"D","i","c","t","i","o","n","a","r","y">>
sBytes == <<"B","y","t","e","s">>
sDateTime == <<"D","a","t","e","T","i","m","e">>
sAny == <<"A","n","y">>
sBase64 == <<"B","a","s","e","6","4">>

Digits == <<"0","1","2","3","4","5","6","7","8","9">>

\* str(x) for the values a `type` argument takes here
Str(x) ==
    CASE x.t = "str" -> x.v
      [] x.t = "none" -> sNone
      [] x.t = "bool" -> IF x.v THEN sTrue ELSE sFalse
      [] x.t = "int" -> <<Digits[x.v + 1]>>
      [] x.t = "type" -> <<"<","c","l","a","s","s"," ","'">> \o x.v \o <<"'",">">>

----------------------------------------------------------------------------
(* _format_type *)

tStr == PyType(<<"s","t","r">>)
tInt == PyType(<<"i","n","t">>)
tFloat == PyType(<<"f","l","o","a","t">>)
tBool == PyType(<<"b","o","o","l">>)
tDict == PyType(<<"d","i","c","t">>)
tList == PyType(<<"l","i","s","t">>)

\* _format_type comparing str(param_type) itself, not its lower-cased form
_format_type_CaseSensitive(param_type) ==
    IF param_type = tStr THEN PyStr(sString)
    ELSE IF param_type = tInt THEN PyStr(sInteger)
    ELSE IF param_type = tFloat THEN PyStr(sFloat)
    ELSE IF param_type = tBool THEN PyStr(sBoolean)
    ELSE IF param_type = tDict THEN PyStr(sDictionary)
    ELSE IF Str(param_type) = sFile THEN PyStr(sBytes)
    ELSE IF Str(param_type) = sDatetime THEN PyStr(sDateTime)
    ELSE IF ~Truthy(param_type) THEN PyStr(sAny)
    ELSE PyStr(Title(Str(param_type)))

_format_type(param_type) ==
    IF param_type = tStr THEN PyStr(sString)
    ELSE IF param_type = tInt THEN PyStr(sInteger)
    ELSE IF param_type = tFloat THEN PyStr(sFloat)
    ELSE IF param_type = tBool THEN PyStr(sBoolean)
    ELSE IF param_type = tDict THEN PyStr(sDictionary)
    ELSE IF Lower(Str(param_type)) = sFile THEN PyStr(sBytes)
    ELSE IF Lower(Str(param_type)) = sDatetime THEN PyStr(sDateTime)
    ELSE IF ~Truthy(param_type) THEN PyStr(sAny)
    ELSE PyStr(Title(Str(param_type)))

----------------------------------------------------------------------------
(* Results of operations that can raise *)

\* F applied to the value of x: x is computed once, before F uses it
Bind(x, F(_)) == CHOOSE y \in {F(v) : v \in {x}} : TRUE

Ok(v) == [ok |-> TRUE, val |-> v]
Raise(kind) == [ok |-> FALSE, err |-> kind]

PluginParamError == "PluginParamError"
TypeError == "TypeError"
KeyError == "KeyError"
AttributeError == "AttributeError"

\* dict.get(key, default)
Get(d, key, default) == IF key \in DOMAIN d.v THEN d.v[key] ELSE default

----------------------------------------------------------------------------
(* brewtils.choices.parse and the Choices model *)

sStatic == <<"s","t","a","t","i","c">>
sUrl == <<"u","r","l">>
sCommand == <<"c","o","m","m","a","n","d">>
sReference == <<"r","e","f","e","r","e","n","c","e">>
sSelect == <<"s","e","l","e","c","t">>
sTypeahead == <<"t","y","p","e","a","h","e","a","d">>

Choices_TYPES == {PyStr(sStatic), PyStr(sUrl), PyStr(sCommand), PyStr(sReference)}
Choices_DISPLAYS == {PyStr(sSelect), PyStr(sTypeahead)}

Choices(type, display, value, strict, details) ==
    [t |-> "Choices",
     v |-> [type |-> type, display |-> display, value |-> value,
            strict |-> strict, details |-> details]]

\* The three grammars, by the shape of the text they accept:
\*   func:      name or name(args): starts with a letter, holds no blank
\*   url:       starts with http:// or https://
\*   reference: ${key}
WellFormed(s, parse_as) ==
    CASE parse_as = "func" ->
            /\ Len(s) > 0
            /\ IsLetter(s[1])
            /\ \A i \in DOMAIN s : s[i] # " "
      [] parse_as = "url" ->
            \/ StartsWith(s, sHttp \o <<":","/","/">>)
            \/ StartsWith(s, sHttp \o <<"s",":","/","/">>)
      [] parse_as = "reference" ->
            /\ Len(s) > 3
            /\ StartsWith(s, <<"$","{">>)
            /\ s[Len(s)] = "}"

\* parse(text, parse_as): the parsed descriptor, ParseError on text the grammar
\* rejects, TypeError on something that is no text
parse(text, parse_as) ==
    IF ~IsString(text) THEN Raise(TypeError)
    ELSE IF ~WellFormed(text.v, parse_as) THEN Raise("ParseError")
    ELSE Ok(PyDict([grammar |-> PyStr(<<parse_as>>), text |-> text]))

----------------------------------------------------------------------------
(* _format_choices *)

HasLen(x) == x.t \in {"str", "list", "dict"}
PyLen(x) == IF x.t = "dict" THEN Cardinality(DOMAIN x.v) ELSE Len(x.v)

\* determine_display with < for <= at line 637
determine_display_Below50(display_value) ==
    IF IsString(display_value) THEN Ok(PyStr(sTypeahead))
    ELSE IF ~HasLen(display_value) THEN Raise(TypeError)
    ELSE Ok(IF PyLen(display_value) < 50 THEN PyStr(sSelect) ELSE PyStr(sTypeahead))

\* len(display_value) raises TypeError on a value without a length
determine_display(display_value) ==
    IF IsString(display_value) THEN Ok(PyStr(sTypeahead))
    ELSE IF ~HasLen(display_value) THEN Raise(TypeError)
    ELSE Ok(IF PyLen(display_value) <= 50 THEN PyStr(sSelect) ELSE PyStr(sTypeahead))

determine_type(type_value) ==
    IF IsString(type_value)
    THEN (IF StartsWith(type_value.v, sHttp) THEN PyStr(sUrl) ELSE PyStr(sCommand))
    ELSE PyStr(sStatic)

\* lines 712-745 with lines 728-735 left out: a static mapping value gets empty
\* details, whether or not there is a key_reference
format_choices_details_NoKeyReference(choices, value, display, choice_type, strict) ==
    LET parsed ==
            IF choice_type = PyStr(sCommand)
            THEN IF IsString(value) THEN parse(value, "func")
                 ELSE IF value.t = "dict"
                      THEN (IF "command" \in DOMAIN value.v
                            THEN parse(value.v["command"], "func")
                            ELSE Raise(KeyError))
                      ELSE Raise(TypeError)
            ELSE IF choice_type = PyStr(sUrl) THEN parse(value, "url")
            ELSE Ok(EmptyDict)
    IN IF parsed.ok
       THEN Ok(Choices(choice_type, display, value, strict, parsed.val))
       ELSE IF parsed.err = "ParseError" THEN Raise(PluginParamError)
       ELSE parsed

\* lines 712-745: the type-specific details, then the Choices
format_choices_details(choices, value, display, choice_type, strict) ==
    LET parsed ==
            IF choice_type = PyStr(sCommand)
            THEN IF IsString(value) THEN parse(value, "func")
                 ELSE IF value.t = "dict"
                      THEN (IF "command" \in DOMAIN value.v
                            THEN parse(value.v["command"], "func")
                            ELSE Raise(KeyError))
                      ELSE Raise(TypeError)
            ELSE IF choice_type = PyStr(sUrl) THEN parse(value, "url")
            ELSE IF value.t = "dict"
                 THEN IF Get(choices, "key_reference", PyNone) = PyNone
                      THEN Raise(PluginParamError)
                      ELSE LET r == parse(Get(choices, "key_reference", PyNone), "reference")
                           IN IF r.ok THEN Ok(PyDict([key_reference |-> r.val])) ELSE r
                 ELSE Ok(EmptyDict)
    IN IF parsed.ok
       THEN Ok(Choices(choice_type, display, value, strict, parsed.val))
       ELSE IF parsed.err = "ParseError" THEN Raise(PluginParamError)
       ELSE parsed

\* lines 648-691: a dict
format_choices_dict(choices) ==
    LET value == Get(choices, "value", PyNone)
        inferred == determine_display(value)
        choice_type == Get(choices, "type", PyNone)
        strict == Get(choices, "strict", PyTrue)
    IN IF ~Truthy(value) THEN Raise(PluginParamError)
       ELSE IF ~inferred.ok THEN inferred
       ELSE LET display == Get(choices, "display", inferred.val)
            IN IF choice_type # PyNone /\ choice_type \notin Choices_TYPES
               THEN Raise(PluginParamError)
               ELSE IF /\ choice_type # PyNone
                       /\ \/ choice_type = PyStr(sCommand) /\ value.t \notin {"str", "dict"}
                          \/ choice_type = PyStr(sUrl) /\ value.t # "str"
                          \/ choice_type = PyStr(sStatic) /\ value.t \notin {"list", "dict"}
               THEN Raise(PluginParamError)
               ELSE IF display \notin Choices_DISPLAYS THEN Raise(PluginParamError)
               ELSE format_choices_details(
                        choices, value, display,
                        IF choice_type = PyNone THEN determine_type(value) ELSE choice_type,
                        strict)

\* list(choices) succeeds on a list and on a string-keyed dict; a Choices object,
\* a number and a type are not iterable
_format_choices(choices) ==
    IF ~Truthy(choices) THEN Ok(PyNone)
    ELSE IF choices.t = "dict" THEN format_choices_dict(choices)
    ELSE IF choices.t = "str"
         THEN format_choices_details(choices, choices, determine_display(choices).val,
                                     determine_type(choices), PyTrue)
    ELSE IF choices.t # "list" THEN Raise(PluginParamError)
    ELSE format_choices_details(choices, choices, determine_display(choices).val,
                                determine_type(choices), PyTrue)

----------------------------------------------------------------------------
(* Parameter objects *)

\* `key` is a string; a Parameter built without a key has key None
KeyNone == "<None>"
\* `model` is a model class, held as its index in `models`; NoModel is None
NoModel == 0

\* Elements of a nested `parameters` list: a Parameter object, a model class
\* (anything else that has a `parameters` attribute), or some other object
ParamElem(id) == [kind |-> "Parameter", ref |-> id]
ModelElem(i) == [kind |-> "model", ref |-> i]
OtherElem == [kind |-> "other", ref |-> 0]

\* Parameter(key=key, type=type, ...): the fields are the keyword arguments
NewParameter(kw) ==
    [key |-> kw.key, type |-> kw.type, optional |-> kw.optional,
     default |-> kw.default, choices |-> kw.choices,
     parameters |-> kw.parameters, nullable |-> kw.nullable,
     is_kwarg |-> kw.is_kwarg, model |-> kw.model, type_info |-> kw.type_info]

\* The keyword defaults of @parameter / _initialize_parameter
DefaultKwargs ==
    [key |-> KeyNone, type |-> PyNone, optional |-> PyNone, default |-> PyNone,
     choices |-> PyNone, parameters |-> <<>>, nullable |-> PyNone,
     is_kwarg |-> PyNone, model |-> NoModel, type_info |-> PyNone]

----------------------------------------------------------------------------
(* Signatures: inspect.signature(method).parameters *)

Empty == [t |-> "empty"]     \* inspect.Parameter.empty
POSITIONAL_ONLY == "POSITIONAL_ONLY"
POSITIONAL_OR_KEYWORD == "POSITIONAL_OR_KEYWORD"
VAR_KEYWORD == "VAR_KEYWORD"

Formal(name, kind, default) == [name |-> name, kind |-> kind, default |-> default]

\* a signature that keeps the receiver
signature_WithReceiver(method) == method.formals

\* signature() of a bound method leaves out the receiver, the first formal of
\* the function
signature(method) == Tail(method.formals)

----------------------------------------------------------------------------
(* _validate_kwargness *)

Matching(sig, key) == {i \in DOMAIN sig : sig[i].name = key}

\* _validate_kwargness without lines 795-798: a positional-only formal is accepted
_validate_kwargness_PositionalOnlyAccepted(_wrapped, param) ==
    LET sig == signature(_wrapped)
        found == Matching(sig, param.key)
        has_kwargs == \E i \in DOMAIN sig : sig[i].kind = VAR_KEYWORD
    IN IF found = {}
       THEN IF param.is_kwarg = PyFalse THEN Raise(PluginParamError)
            ELSE IF ~has_kwargs THEN Raise(PluginParamError)
            ELSE Ok(PyNone)
       ELSE LET sig_param == sig[CHOOSE i \in found : \A j \in found : j <= i]
            IN IF Truthy(param.is_kwarg) THEN Raise(PluginParamError)
               ELSE IF sig_param.default # Empty THEN Ok(sig_param.default)
               ELSE Ok(PyNone)

_validate_kwargness(_wrapped, param) ==
    LET sig == signature(_wrapped)
        found == Matching(sig, param.key)
        has_kwargs == \E i \in DOMAIN sig : sig[i].kind = VAR_KEYWORD
    IN IF found = {}
       THEN IF param.is_kwarg = PyFalse THEN Raise(PluginParamError)
            ELSE IF ~has_kwargs THEN Raise(PluginParamError)
            ELSE Ok(PyNone)
       ELSE LET sig_param == sig[CHOOSE i \in found : \A j \in found : j <= i]
            IN IF Truthy(param.is_kwarg) THEN Raise(PluginParamError)
               ELSE IF sig_param.kind = POSITIONAL_ONLY THEN Raise(PluginParamError)
               ELSE IF sig_param.default # Empty THEN Ok(sig_param.default)
               ELSE Ok(PyNone)

----------------------------------------------------------------------------
(* _initialize_parameter and _generate_nested_params *)

\* What a call leaves behind: the heap as mutated up to the return or the raise
Done(h, v) == [heap |-> h, ok |-> TRUE, val |-> v]
Failed(h, kind) == [heap |-> h, ok |-> FALSE, err |-> kind]

\* lines 566-570: the default generated from the nested parameters' defaults
RECURSIVE ModelDefault(_, _, _, _)
ModelDefault(h, nested, i, acc) ==
    IF i > Len(nested) THEN acc
    ELSE LET np == h[nested[i].ref]
         IN ModelDefault(h, nested, i + 1,
                IF Truthy(np.default)
                THEN [k \in DOMAIN acc \cup {np.key} |->
                        IF k = np.key THEN np.default ELSE acc[k]]
                ELSE acc)

RECURSIVE _initialize_parameter(_, _, _, _)
RECURSIVE GenerateFrom(_, _, _, _, _)

\* _generate_nested_params, from element i of parameter_list on, with the
\* Parameters initialized so far in acc
GenerateFrom(h, ms, parameter_list, i, acc) ==
    IF i > Len(parameter_list) THEN Done(h, acc)
    ELSE LET param == parameter_list[i]
         IN IF param.kind = "Parameter"
            THEN LET r == _initialize_parameter(h, ms, param.ref, <<>>)
                 IN IF r.ok
                    THEN GenerateFrom(r.heap, ms, parameter_list, i + 1,
                                      Append(acc, ParamElem(r.val)))
                    ELSE r
            ELSE IF param.kind = "model"
            THEN LET r == GenerateFrom(h, ms, ms[param.ref], 1, <<>>)
                 IN IF r.ok
                    THEN GenerateFrom(r.heap, ms, parameter_list, i + 1, acc \o r.val)
                    ELSE r
            ELSE Failed(h, PluginParamError)

_generate_nested_params(h, ms, parameter_list) ==
    GenerateFrom(h, ms, parameter_list, 1, <<>>)

\* lines 555-572 without line 561: the type of a Parameter built on a model is
\* left as declared
InitializeNested_ModelKeepsType(h, ms, id) ==
    IF Len(h[id].parameters) > 0
    THEN LET h1 == [h EXCEPT ![id].type = PyStr(sDictionary)]
             r == _generate_nested_params(h1, ms, h1[id].parameters)
         IN IF r.ok THEN Done([r.heap EXCEPT ![id].parameters = r.val], id) ELSE r
    ELSE IF h[id].model # NoModel
    THEN LET r == _generate_nested_params(h, ms, ms[h[id].model])
         IN IF ~r.ok THEN r
            ELSE LET h2 == [r.heap EXCEPT ![id].parameters = r.val]
                 IN IF ~Truthy(h2[id].nullable) /\ ~Truthy(h2[id].default)
                    THEN Done([h2 EXCEPT ![id].default =
                                   PyDict(ModelDefault(h2, r.val, 1, <<>>))], id)
                    ELSE Done(h2, id)
    ELSE Done(h, id)

\* lines 555-572: the nested parameters of Parameter id
InitializeNested(h, ms, id) ==
    IF Len(h[id].parameters) > 0
    THEN LET h1 == [h EXCEPT ![id].type = PyStr(sDictionary)]
             r == _generate_nested_params(h1, ms, h1[id].parameters)
         IN IF r.ok THEN Done([r.heap EXCEPT ![id].parameters = r.val], id) ELSE r
    ELSE IF h[id].model # NoModel
    THEN LET h1 == [h EXCEPT ![id].type = PyStr(sDictionary)]
             r == _generate_nested_params(h1, ms, ms[h1[id].model])
         IN IF ~r.ok THEN r
            ELSE LET h2 == [r.heap EXCEPT ![id].parameters = r.val]
                 IN IF ~Truthy(h2[id].nullable) /\ ~Truthy(h2[id].default)
                    THEN Done([h2 EXCEPT ![id].default =
                                   PyDict(ModelDefault(h2, r.val, 1, <<>>))], id)
                    ELSE Done(h2, id)
    ELSE Done(h, id)

\* lines 541-553: the default taken from the signature, then the fix-ups by type
AdoptDefault(p, func_default) ==
    IF Truthy(func_default) /\ p.default = PyNone
    THEN [p EXCEPT !.default = func_default]
    ELSE p

TypeFixups(p) ==
    LET p1 == IF p.type = PyStr(sBytes)
              THEN [p EXCEPT !.type_info =
                        PyDict([storage |-> PyStr(<<"g","r","i","d","f","s">>)])]
              ELSE p
    IN IF p1.type = PyStr(sBase64) THEN [p1 EXCEPT !.default = PyNone] ELSE p1

\* _initialize_parameter with lines 548-553 moved before line 541: the fix-ups
\* by type are made before the default is taken from the signature
_initialize_parameter_FixupsFirst(h, ms, id, func) ==
    IF h[id].key = KeyNone THEN Failed(h, PluginParamError)
    ELSE LET h1 == [h EXCEPT ![id].type = _format_type(h[id].type)]
             ch == _format_choices(h1[id].choices)
         IN IF ~ch.ok THEN Failed(h1, ch.err)
            ELSE LET h2 == [h1 EXCEPT ![id].choices = ch.val]
                     kw == IF func = <<>> THEN Ok(PyNone)
                           ELSE _validate_kwargness(func[1], h2[id])
                 IN IF ~kw.ok THEN Failed(h2, kw.err)
                    ELSE InitializeNested(
                             [h2 EXCEPT ![id] = AdoptDefault(TypeFixups(h2[id]), kw.val)],
                             ms, id)

\* _initialize_parameter(param=id, func=func); func is <<>> when no func is given,
\* <<method>> otherwise.  The object is changed in place and returned.
_initialize_parameter(h, ms, id, func) ==
    IF h[id].key = KeyNone THEN Failed(h, PluginParamError)
    ELSE LET h1 == [h EXCEPT ![id].type = _format_type(h[id].type)]
             ch == _format_choices(h1[id].choices)
         IN IF ~ch.ok THEN Failed(h1, ch.err)
            ELSE LET h2 == [h1 EXCEPT ![id].choices = ch.val]
                     kw == IF func = <<>> THEN Ok(PyNone)
                           ELSE _validate_kwargness(func[1], h2[id])
                 IN IF ~kw.ok THEN Failed(h2, kw.err)
                    ELSE InitializeNested(
                             [h2 EXCEPT ![id] = TypeFixups(AdoptDefault(h2[id], kw.val))],
                             ms, id)

----------------------------------------------------------------------------
(* _resolve_display_modifiers *)

Fields == {"schema", "form", "template"}

\* What the environment answers to requests.get(url) and to reading a file:
\*   "error": the fetch or the read fails
\*   "json":  the content is JSON (for a URL: served as application/json)
\*   "text":  the content is other text
Outcomes == {"error", "json", "text"}

LoadedJson == PyDict([loaded |-> PyTrue])
JsonText == PyStr(<<"{","}">>)
PlainText == PyStr(<<"t","e","x","t">>)

sFieldset == <<"f","i","e","l","d","s","e","t">>

_load_from_url(outcome) ==
    CASE outcome = "error" -> Raise("ConnectionError")
      [] outcome = "json" -> Ok(LoadedJson)
      [] outcome = "text" -> Ok(PlainText)

_load_from_path(outcome) ==
    CASE outcome = "error" -> Raise("IOError")
      [] outcome = "json" -> Ok(JsonText)
      [] outcome = "text" -> Ok(PlainText)

\* json.loads
json_loads(text) == IF text = JsonText THEN Ok(LoadedJson) ELSE Raise("ValueError")

\* One turn of the loop that makes a fieldset of a list under any key
ResolveField_AnyListIsFieldset(key, value, outcome) ==
    IF IsString(value)
    THEN LET r == IF StartsWith(value.v, sHttp) THEN _load_from_url(outcome)
                  ELSE IF StartsWith(value.v, <<"/">>) \/ StartsWith(value.v, <<".">>)
                       THEN LET loaded_value == _load_from_path(outcome)
                            IN IF ~loaded_value.ok THEN loaded_value
                               ELSE IF key = "template" THEN loaded_value
                               ELSE json_loads(loaded_value.val)
                  ELSE IF key = "template" THEN Ok(value)
                  ELSE Raise(PluginParamError)
         IN IF r.ok THEN r ELSE Raise(PluginParamError)
    ELSE IF value = PyNone \/ (key \in {"schema", "form"} /\ value.t = "dict")
    THEN Ok(value)
    ELSE IF value.t = "list"
    THEN Ok(PyDict([type |-> PyStr(sFieldset), items |-> value]))
    ELSE Raise(PluginParamError)

\* One turn of the loop over schema, form and template; every exception raised
\* while reading a string definition is re-raised as PluginParamError
ResolveField(key, value, outcome) ==
    IF IsString(value)
    THEN LET r == IF StartsWith(value.v, sHttp) THEN _load_from_url(outcome)
                  ELSE IF StartsWith(value.v, <<"/">>) \/ StartsWith(value.v, <<".">>)
                       THEN LET loaded_value == _load_from_path(outcome)
                            IN IF ~loaded_value.ok THEN loaded_value
                               ELSE IF key = "template" THEN loaded_value
                               ELSE json_loads(loaded_value.val)
                  ELSE IF key = "template" THEN Ok(value)
                  ELSE Raise(PluginParamError)
         IN IF r.ok THEN r ELSE Raise(PluginParamError)
    ELSE IF value = PyNone \/ (key \in {"schema", "form"} /\ value.t = "dict")
    THEN Ok(value)
    ELSE IF key = "form" /\ value.t = "list"
    THEN Ok(PyDict([type |-> PyStr(sFieldset), items |-> value]))
    ELSE Raise(PluginParamError)

\* io[key] is the environment's answer for the field `key`
_resolve_display_modifiers(schema, form, template, io) ==
    LET rs == ResolveField("schema", schema, io["schema"])
        rf == ResolveField("form", form, io["form"])
        rt == ResolveField("template", template, io["template"])
    IN IF rs.ok /\ rf.ok /\ rt.ok
       THEN Ok([schema |-> rs.val, form |-> rf.val, template |-> rt.val])
       ELSE Raise(PluginParamError)

\* TRUE when resolving the value asks the environment
NeedsIO(value) ==
    /\ IsString(value)
    /\ \/ StartsWith(value.v, sHttp)
       \/ StartsWith(value.v, <<"/">>)
       \/ StartsWith(value.v, <<".">>)

----------------------------------------------------------------------------
(* Command objects and _initialize_command *)

NameNone == "<None>"
NoCommand == 0

\* Command(**kwargs): `parameters or []`
NewCommand(kw) ==
    [name |-> NameNone, description |-> kw.description, parameters |-> kw.parameters,
     schema |-> kw.schema, form |-> kw.form, template |-> kw.template]

CommandDefaults ==
    [description |-> PyNone, parameters |-> <<>>, schema |-> PyNone,
     form |-> PyNone, template |-> PyNone]

\* Command.parameter_keys and Command.get_parameter_by_key
parameter_keys(h, cmd) == [i \in DOMAIN cmd.parameters |-> h[cmd.parameters[i]].key]

get_parameter_by_key(h, cmd, key) ==
    LET hits == {i \in DOMAIN cmd.parameters : h[cmd.parameters[i]].key = key}
    IN cmd.parameters[CHOOSE i \in hits : \A j \in hits : i <= j]

InSeq(x, s) == \E i \in DOMAIN s : s[i] = x

\* docstring.split("\n")[0] if docstring else None
FirstLine(s) ==
    LET breaks == {i \in DOMAIN s : s[i] = "\n"}
    IN IF breaks = {} THEN s
       ELSE SubSeq(s, 1, (CHOOSE i \in breaks : \A j \in breaks : i <= j) - 1)

_function_docstring(method) ==
    IF Truthy(method.doc) THEN PyStr(FirstLine(method.doc.v)) ELSE PyNone

What(h, cs, v) == [heap |-> h, cmds |-> cs, ok |-> TRUE, val |-> v]
Broke(h, cs, kind) == [heap |-> h, cmds |-> cs, ok |-> FALSE, err |-> kind]

\* lines 372-383: the loop over the formals, from formal i on
RECURSIVE MergeSignature(_, _, _, _, _)
MergeSignature(h, cs, cid, sig, i) ==
    IF i > Len(sig) THEN What(h, cs, cid)
    ELSE LET arg == sig[i]
         IN IF ~InSeq(arg.name, parameter_keys(h, cs[cid]))
            THEN LET new == NewParameter([DefaultKwargs EXCEPT !.key = arg.name,
                                                              !.optional = PyFalse])
                     id == Len(h) + 1
                 IN Bind(What(Append(h, new),
                              [cs EXCEPT ![cid].parameters = Append(@, id)], cid),
                         LAMBDA s : MergeSignature(s.heap, s.cmds, cid, sig, i + 1))
            ELSE LET param == get_parameter_by_key(h, cs[cid], arg.name)
                 IN Bind(IF h[param].optional = PyNone
                         THEN [h EXCEPT ![param].optional = PyFalse]
                         ELSE h,
                         LAMBDA h1 : MergeSignature(h1, cs, cid, sig, i + 1))

\* _initialize_command(method): the Command is the method's own _command object
\* when it has one, a new Command() otherwise
_initialize_command(h, cs, name, method, io) ==
    LET fresh == method.command = NoCommand
        cs0 == IF fresh THEN Append(cs, NewCommand(CommandDefaults)) ELSE cs
        cid == IF fresh THEN Len(cs0) ELSE method.command
        cs1 == [cs0 EXCEPT ![cid].name = name,
                           ![cid].description =
                               IF Truthy(@) THEN @ ELSE _function_docstring(method)]
        resolved_mod == _resolve_display_modifiers(
                            cs1[cid].schema, cs1[cid].form, cs1[cid].template, io)
    IN IF ~resolved_mod.ok THEN Broke(h, cs1, resolved_mod.err)
       ELSE Bind([cs1 EXCEPT ![cid].schema = resolved_mod.val.schema,
                             ![cid].form = resolved_mod.val.form,
                             ![cid].template = resolved_mod.val.template,
                             ![cid].parameters = @ \o method.parameters],
                 LAMBDA cs2 : MergeSignature(h, cs2, cid, signature(method), 1))

----------------------------------------------------------------------------
(* parse_client *)

\* dir(client) lists the attribute names in sorted order
MethodNames == <<"m1", "m2">>

\* lines 62-63: _initialize_parameter on each parameter of the Command
RECURSIVE InitializeAll(_, _, _, _, _)
InitializeAll(h, ms, params, method, i) ==
    IF i > Len(params) THEN Done(h, params)
    ELSE Bind(_initialize_parameter(h, ms, params[i], <<method>>),
              LAMBDA r : IF r.ok THEN InitializeAll(r.heap, ms, params, method, i + 1)
                         ELSE r)

IsAnnotated(method) == method.command # NoCommand \/ method.hasParameters

\* the loop from attribute i on, when a method that fails to compile is left
\* out of bg_commands and the loop goes on
RECURSIVE ParseFrom_SkipsFailed(_, _, _, _, _, _, _)
ParseFrom_SkipsFailed(h, cs, ms, meths, io, i, acc) ==
    IF i > Len(MethodNames) THEN What(h, cs, acc)
    ELSE LET method == meths[MethodNames[i]]
         IN IF ~IsAnnotated(method)
            THEN ParseFrom_SkipsFailed(h, cs, ms, meths, io, i + 1, acc)
            ELSE Bind(_initialize_command(h, cs, MethodNames[i], method,
                                          io[MethodNames[i]]),
                      LAMBDA c :
                        IF ~c.ok
                        THEN ParseFrom_SkipsFailed(c.heap, c.cmds, ms, meths, io,
                                                   i + 1, acc)
                        ELSE Bind(InitializeAll(c.heap, ms, c.cmds[c.val].parameters,
                                                method, 1),
                                  LAMBDA r :
                                    ParseFrom_SkipsFailed(
                                        r.heap, c.cmds, ms, meths, io, i + 1,
                                        IF r.ok THEN Append(acc, c.val) ELSE acc)))

\* the loop of parse_client from attribute i on, bg_commands so far in acc
RECURSIVE ParseFrom(_, _, _, _, _, _, _)
ParseFrom(h, cs, ms, meths, io, i, acc) ==
    IF i > Len(MethodNames) THEN What(h, cs, acc)
    ELSE LET method == meths[MethodNames[i]]
         IN IF ~IsAnnotated(method) THEN ParseFrom(h, cs, ms, meths, io, i + 1, acc)
            ELSE Bind(_initialize_command(h, cs, MethodNames[i], method,
                                          io[MethodNames[i]]),
                      LAMBDA c :
                        IF ~c.ok THEN c
                        ELSE Bind(InitializeAll(c.heap, ms, c.cmds[c.val].parameters,
                                                method, 1),
                                  LAMBDA r :
                                    IF ~r.ok THEN Broke(r.heap, c.cmds, r.err)
                                    ELSE ParseFrom(r.heap, c.cmds, ms, meths, io,
                                                   i + 1, Append(acc, c.val))))

parse_client(h, cs, ms, meths, io) == ParseFrom(h, cs, ms, meths, io, 1, <<>>)

----------------------------------------------------------------------------
(* Values of objects, followed through the references they hold *)

RECURSIVE DeepParam(_, _)
DeepParam(h, id) ==
    [h[id] EXCEPT !.parameters =
        [i \in DOMAIN @ |->
            IF @[i].kind = "Parameter" THEN DeepParam(h, @[i].ref) ELSE @[i]]]

DeepList(h, elems) ==
    [i \in DOMAIN elems |->
        IF elems[i].kind = "Parameter" THEN DeepParam(h, elems[i].ref) ELSE elems[i]]

DeepCommand(h, cs, cid) ==
    [cs[cid] EXCEPT !.parameters = [i \in DOMAIN @ |-> DeepParam(h, @[i])]]

\* The Parameter objects of the tree under Parameter id, id included
RECURSIVE TreeIds(_, _)
TreeIds(h, id) ==
    {id} \cup UNION {TreeIds(h, h[id].parameters[i].ref) :
                        i \in {j \in DOMAIN h[id].parameters :
                                  h[id].parameters[j].kind = "Parameter"}}

----------------------------------------------------------------------------
(* Bounds *)

MaxRuns == 2          \* parse_client calls on the client
MaxDeclared == 2      \* Parameters declared on the client by decorators
MaxNew == 2           \* Parameters built by direct _initialize_parameter calls
MaxCalls == 3         \* direct _initialize_parameter calls

----------------------------------------------------------------------------
(* The model class the client's module defines, and its Parameters *)

sX == <<"x">>
sY == <<"y">>
sCmd == <<"g","e","t","_","x">>
ListXY == PyList(<<PyStr(sX), PyStr(sY)>>)

\* class M: parameters = [Parameter(key="x", default=..), Parameter(key="y", ..)]
ModelLists ==
    { <<[DefaultKwargs EXCEPT !.key = "x", !.default = PyInt(1)],
        [DefaultKwargs EXCEPT !.key = "y"]>>,
      <<[DefaultKwargs EXCEPT !.key = "x", !.default = PyInt(0)],
        [DefaultKwargs EXCEPT !.key = "y", !.choices = ListXY]>> }

ModelHeap(list) == [i \in DOMAIN list |-> NewParameter(list[i])]
ModelClass(list) == <<[i \in DOMAIN list |-> ParamElem(i)]>>

NoCall == [op |-> "none", n |-> 0]

\* No registry is talked to
NoRegistry == [system |-> <<>>, calls |-> <<>>]

----------------------------------------------------------------------------
(* The client: its methods and what the decorators are given *)

Methods == {MethodNames[i] : i \in DOMAIN MethodNames}

Self == Formal("self", POSITIONAL_OR_KEYWORD, Empty)

\* def m(self, a, b=7, c=0, **kwargs)
SigFull ==
    <<Self, Formal("a", POSITIONAL_OR_KEYWORD, Empty),
      Formal("b", POSITIONAL_OR_KEYWORD, PyInt(7)),
      Formal("c", POSITIONAL_OR_KEYWORD, PyInt(0)),
      Formal("kwargs", VAR_KEYWORD, Empty)>>
\* def m(self, a, b=5)
SigPlain ==
    <<Self, Formal("a", POSITIONAL_OR_KEYWORD, Empty),
      Formal("b", POSITIONAL_OR_KEYWORD, PyInt(5))>>
\* def m(self, a, /, b=5)
SigPositional ==
    <<Self, Formal("a", POSITIONAL_ONLY, Empty),
      Formal("b", POSITIONAL_OR_KEYWORD, PyInt(5))>>

DocString == PyStr(<<"D","o","c","\n","m","o","r","e">>)

NewMethod(formals, doc) ==
    [formals |-> formals, doc |-> doc, command |-> NoCommand,
     hasParameters |-> FALSE, parameters |-> <<>>,
     \* history: the ids of the Parameters given to @command(parameters=..), and
     \* the keyword arguments each declared Parameter was built from
     cmdDeclared |-> <<>>, kwargs |-> <<>>]

\* The keyword arguments the @parameter decorators of the client use
DeclKwargs ==
    {[DefaultKwargs EXCEPT !.key = k, !.optional = o] :
        k \in {"a", "b"}, o \in {PyNone, PyTrue}}
    \cup {[DefaultKwargs EXCEPT !.key = "k"],
          [DefaultKwargs EXCEPT !.key = "c"],
          [DefaultKwargs EXCEPT !.key = "b", !.default = PyInt(3)],
          [DefaultKwargs EXCEPT !.key = "a", !.model = 1]}

\* The keyword arguments the lists given to @parameters are made of
ListedKwargs == {kw \in DeclKwargs : kw.key \in {"a", "k"} /\ kw.model = NoModel}

\* The Parameters the client passes to @command(parameters=[...])
CommandParameters ==
    {<<>>, <<[DefaultKwargs EXCEPT !.key = "a"]>>, <<[DefaultKwargs EXCEPT !.key = "k"]>>}

sUrlText == sHttp \o <<":","/","/","h">>
FormList == PyList(<<PyStr(sX), PyStr(sY)>>)

\* The display definitions the client passes to @command
NoDisplay == [schema |-> PyNone, form |-> PyNone, template |-> PyNone]
CommandDisplays ==
    {NoDisplay,
     [schema |-> PyNone, form |-> FormList, template |-> PyStr(sX)],
     [schema |-> PyStr(sX), form |-> PyNone, template |-> PyNone]}

Declared(meths) ==
    LET n[S \in SUBSET Methods] ==
            IF S = {} THEN 0
            ELSE LET m == CHOOSE x \in S : TRUE
                 IN Len(meths[m].parameters) + Len(meths[m].cmdDeclared) + n[S \ {m}]
    IN n[Methods]

\* The environment's answers that matter to a compilation of the client: one
\* per display field that is fetched or read
NoIO == [f \in Fields |-> "error"]
FieldOf(cmd, f) ==
    CASE f = "schema" -> cmd.schema [] f = "form" -> cmd.form [] f = "template" -> cmd.template
IOFor(cs, method) ==
    IF method.command = NoCommand THEN {NoIO}
    ELSE {io \in [Fields -> Outcomes] :
            \A f \in Fields : ~NeedsIO(FieldOf(cs[method.command], f)) => io[f] = "error"}
IOChoices(cs, meths) ==
    {io \in [Methods -> UNION {IOFor(cs, meths[m]) : m \in Methods}] :
        \A m \in Methods : io[m] \in IOFor(cs, meths[m])}

----------------------------------------------------------------------------
(* The decorators *)

\* The class body runs top to bottom: the decorators of a method are applied
\* before the next method is defined
DefinedBefore(m) ==
    \A i, j \in DOMAIN MethodNames :
        MethodNames[i] = m /\ i < j => ~IsAnnotated(methods[MethodNames[j]])

\* f extended by ids[i] |-> kws[i]
Extend(f, ids, kws) ==
    [id \in DOMAIN f \cup {ids[i] : i \in DOMAIN ids} |->
        IF id \in DOMAIN f THEN f[id]
        ELSE kws[CHOOSE i \in DOMAIN ids : ids[i] = id]]

\* @command(parameters=.., schema=.., form=.., template=..) on method m:
\* m._command = Command(...).  The Parameters of the list are built by the
\* client for this call.
command(m, parameters, display) ==
    LET ids == [i \in DOMAIN parameters |-> Len(heap) + i]
    IN /\ phase = "decorate"
       /\ methods[m].command = NoCommand
       /\ DefinedBefore(m)
       /\ Declared(methods) + Len(parameters) <= MaxDeclared
       /\ heap' = heap \o [i \in DOMAIN parameters |-> NewParameter(parameters[i])]
       /\ cmds' = Append(cmds, NewCommand([CommandDefaults EXCEPT
                                               !.parameters = ids,
                                               !.schema = display.schema,
                                               !.form = display.form,
                                               !.template = display.template]))
       /\ methods' = [methods EXCEPT
                         ![m].command = Len(cmds) + 1,
                         ![m].cmdDeclared = ids,
                         ![m].kwargs = Extend(@, ids, parameters)]
       /\ UNCHANGED <<models, phase, runs, last, outputs, modelInit, plugins, registry, threads>>

\* @parameter(**kw) on method m: m.parameters = getattr(m, "parameters", []),
\* then m.parameters.append(Parameter(**kw))
parameter(m, kw) ==
    /\ phase = "decorate"
    /\ DefinedBefore(m)
    /\ Declared(methods) < MaxDeclared
    /\ heap' = Append(heap, NewParameter(kw))
    /\ methods' = [methods EXCEPT
                      ![m].hasParameters = TRUE,
                      ![m].parameters = Append(@, Len(heap) + 1),
                      ![m].kwargs = Extend(@, <<Len(heap) + 1>>, <<kw>>)]
    /\ UNCHANGED <<cmds, models, phase, runs, last, outputs, modelInit, plugins, registry, threads>>

\* @parameters([kw, ...]) on method m: parameter(m, **kw) for each kw in turn
parameters(m, kws) ==
    LET ids == [i \in DOMAIN kws |-> Len(heap) + i]
    IN /\ phase = "decorate"
       /\ DefinedBefore(m)
       /\ Declared(methods) + Len(kws) <= MaxDeclared
       /\ heap' = heap \o [i \in DOMAIN kws |-> NewParameter(kws[i])]
       /\ methods' = [methods EXCEPT
                         ![m].hasParameters = TRUE,
                         ![m].parameters = @ \o ids,
                         ![m].kwargs = Extend(@, ids, kws)]
       /\ UNCHANGED <<cmds, models, phase, runs, last, outputs, modelInit, plugins, registry, threads>>

----------------------------------------------------------------------------
(* Compiling the client *)

RunRecord(r, io) ==
    [ok |-> r.ok,
     err |-> IF r.ok THEN "" ELSE r.err,
     io |-> io,
     val |-> IF r.ok THEN r.val ELSE <<>>,
     params |-> IF r.ok THEN [i \in DOMAIN r.val |-> r.cmds[r.val[i]].parameters]
                ELSE <<>>,
     snapshot |-> IF r.ok THEN [i \in DOMAIN r.val |-> DeepCommand(r.heap, r.cmds, r.val[i])]
                  ELSE <<>>]

ParseClient ==
    /\ Len(runs) < MaxRuns
    /\ \E m \in Methods : IsAnnotated(methods[m])
    /\ \E io \in IOChoices(cmds, methods) :
         \E r \in {parse_client(heap, cmds, models, methods, io)} :
            /\ heap' = r.heap
            /\ cmds' = r.cmds
            /\ runs' = Append(runs, RunRecord(r, io))
    /\ phase' = "compiled"
    /\ UNCHANGED <<models, methods, last, outputs, modelInit, plugins, registry, threads>>

SpecModelList ==
    <<[DefaultKwargs EXCEPT !.key = "x", !.default = PyInt(1)],
      [DefaultKwargs EXCEPT !.key = "y", !.choices = ListXY]>>

Init ==
    /\ heap = ModelHeap(SpecModelList)
    /\ models = ModelClass(SpecModelList)
    /\ modelInit = <<DeepList(heap, models[1])>>
    /\ cmds = <<>>
    /\ \E s1 \in {SigFull, SigPlain}, s2 \in {SigPlain, SigPositional} :
         methods = [m \in Methods |->
                      IF m = "m1" THEN NewMethod(s1, DocString) ELSE NewMethod(s2, PyNone)]
    /\ phase = "decorate"
    /\ runs = <<>>
    /\ last = NoCall
    /\ outputs = <<>>
    /\ plugins = <<>>
    /\ registry = NoRegistry
    /\ threads = <<>>

Next ==
    \/ \E kw \in DeclKwargs : parameter("m1", kw)
    \/ \E kw1, kw2 \in ListedKwargs : parameters("m1", <<kw1, kw2>>)
    \/ \E ps \in CommandParameters : command("m1", ps, NoDisplay)
    \/ \E d \in CommandDisplays : command("m2", <<>>, d)
    \/ ParseClient

Spec == Init /\ [][Next]_vars

----------------------------------------------------------------------------
(* The normalizer called directly *)

sFileUpper == <<"F","i","l","e">>
sBase64Lower == <<"b","a","s","e","6","4">>
ChoicesDict == PyDict([value |-> ListXY, display |-> PyStr(sSelect)])

\* Parameters a caller holds: those of the model class and those returned
Held == (DOMAIN modelInit[1]) \cup DOMAIN outputs

\* The nested `parameters` lists a caller passes
ElemLists ==
    {<<OtherElem>>, <<ModelElem(1)>>, <<ParamElem(1), ParamElem(2)>>}
    \cup {<<ParamElem(i)>> : i \in Held}

\* The keyword arguments of the direct calls
NormKwargs ==
    LET P == [DefaultKwargs EXCEPT !.key = "p"]
    IN {P, DefaultKwargs,
        [P EXCEPT !.type = tInt],
        [P EXCEPT !.type = PyStr(sFileUpper)],
        [P EXCEPT !.type = PyStr(sBase64Lower), !.default = PyInt(7)],
        [P EXCEPT !.choices = ListXY],
        [P EXCEPT !.choices = PyStr(sCmd)],
        [P EXCEPT !.choices = ChoicesDict],
        [P EXCEPT !.choices = PyInt(5)],
        [P EXCEPT !.model = 1],
        [P EXCEPT !.model = 1, !.nullable = PyTrue],
        [P EXCEPT !.model = 1, !.default = PyInt(7)],
        [P EXCEPT !.model = 1, !.default = PyInt(0)],
        [P EXCEPT !.model = 1, !.type = tInt],
        [P EXCEPT !.model = 1, !.parameters = <<ParamElem(1)>>]}
       \cup {[P EXCEPT !.parameters = l, !.type = t] :
                l \in ElemLists, t \in {PyNone, PyStr(sFileUpper)}}

CallRecord(r, id, before, kw) ==
    [op |-> "_initialize_parameter",
     n |-> last.n + 1,
     id |-> id,
     kw |-> kw,
     ok |-> r.ok,
     err |-> IF r.ok THEN "" ELSE r.err,
     again |-> id \in DOMAIN outputs /\ before = <<outputs[id]>>,
     before |-> before,
     after |-> DeepParam(r.heap, id)]

Returned(r, id) ==
    IF r.ok
    THEN [i \in DOMAIN outputs \cup {id} |->
            IF i = id THEN DeepParam(r.heap, id) ELSE outputs[i]]
    ELSE outputs

\* _initialize_parameter(key=.., type=.., ...): a new Parameter is built from
\* the keyword arguments and initialized
InitializeNew(kw) ==
    /\ phase = "normalize"
    /\ last.n < MaxCalls
    /\ Len(heap) < Len(modelInit[1]) + MaxNew
    /\ LET id == Len(heap) + 1
       IN \E r \in {_initialize_parameter(Append(heap, NewParameter(kw)), models, id, <<>>)} :
            /\ heap' = r.heap
            /\ last' = CallRecord(r, id, <<>>, <<kw>>)
            /\ outputs' = Returned(r, id)
    /\ UNCHANGED <<cmds, models, methods, phase, runs, modelInit, plugins, registry, threads>>

\* _initialize_parameter(param=p) on a Parameter the caller holds
InitializeExisting(id) ==
    /\ phase = "normalize"
    /\ last.n < MaxCalls
    /\ id \in Held
    /\ \E r \in {_initialize_parameter(heap, models, id, <<>>)} :
         /\ heap' = r.heap
         /\ last' = CallRecord(r, id, <<DeepParam(heap, id)>>, <<>>)
         /\ outputs' = Returned(r, id)
    /\ UNCHANGED <<cmds, models, methods, phase, runs, modelInit, plugins, registry, threads>>

InitNorm ==
    /\ \E list \in ModelLists :
         /\ heap = ModelHeap(list)
         /\ models = ModelClass(list)
    /\ modelInit = <<DeepList(heap, models[1])>>
    /\ cmds = <<>>
    /\ methods = [m \in Methods |-> NewMethod(SigPlain, PyNone)]
    /\ phase = "normalize"
    /\ runs = <<>>
    /\ last = NoCall
    /\ outputs = <<>>
    /\ plugins = <<>>
    /\ registry = NoRegistry
    /\ threads = <<>>

NextNorm ==
    \/ \E kw \in NormKwargs : InitializeNew(kw)
    \/ \E id \in DOMAIN heap : InitializeExisting(id)

SpecNorm == InitNorm /\ [][NextNorm]_vars

----------------------------------------------------------------------------
(* The functions of the module called one at a time *)

\* Each behaviour makes one call, on arguments drawn from the sets below.
\* The call made: its arguments, and what it returned or raised
CallOf(op, args, r) ==
    [op |-> op, n |-> last.n + 1, args |-> args,
     ok |-> r.ok,
     err |-> IF r.ok THEN "" ELSE r.err,
     val |-> IF r.ok THEN <<r.val>> ELSE <<>>]

SigKwargs == <<Self, Formal("kwargs", VAR_KEYWORD, Empty)>>
Signatures == {SigFull, SigPlain, SigPositional, SigKwargs}
SignatureKeys == {"a", "b", "c", "k", "kwargs"}

\* _validate_kwargness(method, param) for a method of signature sig and
\* Parameter(key=key, is_kwarg=is_kwarg)
ValidateKwargness(sig, key, is_kwarg) ==
    /\ phase = "call" /\ last = NoCall
    /\ \E r \in {_validate_kwargness(
                     NewMethod(sig, PyNone),
                     NewParameter([DefaultKwargs EXCEPT !.key = key,
                                                        !.is_kwarg = is_kwarg]))} :
         last' = CallOf("_validate_kwargness",
                        [sig |-> sig, key |-> key, is_kwarg |-> is_kwarg], r)
    /\ UNCHANGED <<heap, cmds, models, methods, phase, runs, outputs, modelInit, plugins, registry, threads>>

\* The values given as `type`
sFILE == <<"F","I","L","E">>
sDATETIME == <<"D","A","T","E","T","I","M","E">>
sMyType == <<"m","y"," ","t","y","p","e","2","b">>
TypeValues ==
    {tStr, tInt, tFloat, tBool, tDict, tList,
     PyNone, PyStr(<<>>), PyInt(0), PyInt(1), PyFalse, PyTrue,
     PyStr(sFile), PyStr(sFileUpper), PyStr(sFILE),
     PyStr(sDatetime), PyStr(sDateTime), PyStr(sDATETIME),
     PyStr(sString), PyStr(sBytes), PyStr(sBase64Lower), PyStr(sMyType)}

\* _format_type(param_type)
FormatType(param_type) ==
    /\ phase = "call" /\ last = NoCall
    /\ last' = CallOf("_format_type", [type |-> param_type], Ok(_format_type(param_type)))
    /\ UNCHANGED <<heap, cmds, models, methods, phase, runs, outputs, modelInit, plugins, registry, threads>>

\* _initialize_parameter(key="p", type=type, default=default)
InitializeTyped(type, default) ==
    /\ phase = "call" /\ last = NoCall
    /\ LET kw == [DefaultKwargs EXCEPT !.key = "p", !.type = type, !.default = default]
           id == Len(heap) + 1
       IN \E r \in {_initialize_parameter(Append(heap, NewParameter(kw)), models, id, <<>>)} :
            /\ heap' = r.heap
            /\ last' = CallOf("_initialize_parameter",
                              [type |-> type, default |-> default],
                              IF r.ok THEN Ok(r.heap[id]) ELSE r)
    /\ UNCHANGED <<cmds, models, methods, phase, runs, outputs, modelInit, plugins, registry, threads>>

\* _initialize_parameter(key=key, type=type, default=default, model=model,
\* func=method) for a method of signature sig
InitializeFor(sig, key, type, default, model) ==
    /\ phase = "call" /\ last = NoCall
    /\ LET kw == [DefaultKwargs EXCEPT !.key = key, !.type = type,
                                       !.default = default, !.model = model]
           id == Len(heap) + 1
       IN \E r \in {_initialize_parameter(Append(heap, NewParameter(kw)), models, id,
                                          <<NewMethod(sig, PyNone)>>)} :
            /\ heap' = r.heap
            /\ last' = CallOf("_initialize_parameter",
                              [func |-> sig, key |-> key, type |-> type,
                               default |-> default, model |-> model],
                              IF r.ok THEN Ok(r.heap[id]) ELSE r)
    /\ UNCHANGED <<cmds, models, methods, phase, runs, outputs, modelInit, plugins, registry, threads>>

\* The values given as `choices`
sUrlChoices == sHttp \o <<":","/","/","h">>
sHttpName == sHttp \o <<"_","x">>
sBadCommand == <<"g","e","t"," ","x">>
sRefX == <<"$","{","x","}">>
sBogus == <<"b","o","g","u","s">>
CommandDict == PyDict([command |-> PyStr(sCmd)])
\* a list of n strings
ListOf(n) == PyList([i \in 1..n |-> PyStr(sX)])
OtherDict == PyDict([x |-> ListXY])
ChoicesValues ==
    {PyNone, PyList(<<>>), EmptyDict, ListXY, PyInt(5),
     PyStr(sCmd), PyStr(sUrlChoices), PyStr(sHttpName), PyStr(sBadCommand),
     PyDict([value |-> ListXY, display |-> PyStr(sSelect)]),
     PyDict([value |-> ListXY]),
     PyDict([display |-> PyStr(sSelect)]),
     PyDict([value |-> ListXY, strict |-> PyFalse]),
     PyDict([value |-> ListXY, display |-> PyStr(sBogus)]),
     PyDict([value |-> ListXY, type |-> PyStr(sBogus)]),
     PyDict([value |-> ListXY, type |-> PyStr(sUrl)]),
     PyDict([value |-> ListXY, type |-> PyStr(sCommand)]),
     PyDict([value |-> ListXY, type |-> PyStr(sStatic)]),
     PyDict([value |-> PyStr(sCmd)]),
     PyDict([value |-> PyStr(sCmd), type |-> PyStr(sStatic)]),
     PyDict([value |-> PyStr(sCmd), type |-> PyStr(sCommand)]),
     PyDict([value |-> PyStr(sBadCommand), type |-> PyStr(sCommand)]),
     PyDict([value |-> PyStr(sUrlChoices)]),
     PyDict([value |-> PyStr(sUrlChoices), type |-> PyStr(sUrl)]),
     PyDict([value |-> PyStr(sCmd), type |-> PyStr(sUrl)]),
     PyDict([value |-> CommandDict]),
     PyDict([value |-> CommandDict, key_reference |-> PyStr(sRefX)]),
     PyDict([value |-> CommandDict, type |-> PyStr(sCommand)]),
     PyDict([value |-> OtherDict, type |-> PyStr(sCommand)]),
     PyDict([value |-> OtherDict]),
     PyDict([value |-> OtherDict, key_reference |-> PyStr(sRefX)]),
     PyDict([value |-> OtherDict, key_reference |-> PyStr(sBogus)]),
     PyDict([value |-> OtherDict, type |-> PyStr(sStatic), key_reference |-> PyStr(sRefX)]),
     PyDict([value |-> OtherDict, type |-> PyStr(sUrl)]),
     PyDict([value |-> PyInt(5)]),
     PyDict([value |-> PyInt(5), display |-> PyStr(sSelect)]),
     PyDict([value |-> PyInt(5), type |-> PyStr(sStatic), display |-> PyStr(sSelect)]),
     PyDict([value |-> PyInt(5), type |-> PyStr(sCommand)]),
     PyDict([value |-> ListXY, type |-> PyStr(sReference)]),
     PyDict([value |-> PyStr(sCmd), type |-> PyStr(sReference)]),
     PyDict([value |-> ListXY, type |-> PyStr(sStatic), display |-> PyStr(sBogus)]),
     PyDict([value |-> ListXY, type |-> PyStr(sStatic), key_reference |-> PyStr(sRefX)]),
     PyDict([value |-> OtherDict, type |-> PyStr(sStatic)]),
     PyDict([value |-> PyStr(sCmd), strict |-> PyFalse]),
     PyDict([value |-> PyStr(sCmd), display |-> PyStr(sSelect)]),
     ListOf(50), ListOf(51),
     PyDict([value |-> ListOf(50)]), PyDict([value |-> ListOf(51)]),
     PyDict([value |-> ListOf(51), display |-> PyStr(sSelect)]),
     PyDict([value |-> ListOf(51), strict |-> PyFalse])}

\* _format_choices(choices)
FormatChoices(choices) ==
    /\ phase = "call" /\ last = NoCall
    /\ last' = CallOf("_format_choices", [choices |-> choices], _format_choices(choices))
    /\ UNCHANGED <<heap, cmds, models, methods, phase, runs, outputs, modelInit, plugins, registry, threads>>

\* The values given as schema, form and template
sPathText == <<".","/","f">>
DisplayDict == PyDict([a |-> PyInt(1)])
DisplayValues ==
    {PyNone, DisplayDict, FormList, PyStr(sX), PyInt(5), PyStr(sUrlText), PyStr(sPathText)}

\* _resolve_display_modifiers(method, name, schema, form, template), the
\* environment answering io to what it fetches or reads
ResolveDisplay(schema, form, template, io) ==
    /\ phase = "call" /\ last = NoCall
    /\ \A f \in Fields :
          ~NeedsIO([schema |-> schema, form |-> form, template |-> template][f])
             => io[f] = "error"
    /\ last' = CallOf("_resolve_display_modifiers",
                      [schema |-> schema, form |-> form, template |-> template, io |-> io],
                      _resolve_display_modifiers(schema, form, template, io))
    /\ UNCHANGED <<heap, cmds, models, methods, phase, runs, outputs, modelInit, plugins, registry, threads>>

InitCall ==
    /\ heap = ModelHeap(SpecModelList)
    /\ models = ModelClass(SpecModelList)
    /\ modelInit = <<DeepList(heap, models[1])>>
    /\ cmds = <<>>
    /\ methods = [m \in Methods |-> NewMethod(SigPlain, PyNone)]
    /\ phase = "call"
    /\ runs = <<>>
    /\ last = NoCall
    /\ outputs = <<>>
    /\ plugins = <<>>
    /\ registry = NoRegistry
    /\ threads = <<>>

NextCall ==
    \/ \E sig \in Signatures, key \in SignatureKeys, is_kwarg \in {PyNone, PyTrue, PyFalse} :
          ValidateKwargness(sig, key, is_kwarg)
    \/ \E type \in TypeValues : FormatType(type)
    \/ \E choices \in ChoicesValues : FormatChoices(choices)
    \/ \E schema, form, template \in DisplayValues, io \in [Fields -> Outcomes] :
          ResolveDisplay(schema, form, template, io)
    \/ \E type \in TypeValues, default \in {PyNone, PyInt(7)} : InitializeTyped(type, default)
    \/ \E sig \in Signatures, key \in {"a", "b"},
          type \in {PyNone, tInt, PyStr(sBase64), PyStr(sBase64Lower)},
          default \in {PyNone, PyInt(0), PyInt(7)},
          model \in {NoModel} \cup DOMAIN models :
          InitializeFor(sig, key, type, default, model)

SpecCall == InitCall /\ [][NextCall]_vars

----------------------------------------------------------------------------
(* Plugin: the constructor and the startup *)

ValidationError == "ValidationError"
PluginValidationError == "PluginValidationError"

\* a or b
PyOr(a, b) == IF Truthy(a) THEN a ELSE b

sDefault == <<"d","e","f","a","u","l","t">>
sN == <<"n">>
sV == <<"1",".","0">>
sDoc == <<"d","o","c","\n","m","o","r","e">>

\* System(name=.., ...): an object holding its keyword arguments
System(kw) == [t |-> "System", v |-> kw]
\* System.has_instance(name)
has_instance(system, name) ==
    \E i \in DOMAIN system.v.instances : system.v.instances[i] = name

\* os.environ, as far as it is read: None for a variable that is not set
NoEnviron == [BG_NAME |-> PyNone, BG_VERSION |-> PyNone, BG_INSTANCE_NAME |-> PyNone]

DefaultMaxConcurrent == 5
DefaultMaxInstances == 1
AdminWorkers == 1

\* Plugin._setup_system.  client.has_commands is FALSE for a client without the
\* attribute _commands, which line 518 reads
_setup_system(client, inst_name, system, name, description, version, icon_name, metadata, display_name, max_instances, environ) ==
    IF Truthy(system)
    THEN IF \/ Truthy(name) \/ Truthy(description) \/ Truthy(version)
            \/ Truthy(icon_name) \/ Truthy(display_name) \/ Truthy(max_instances)
         THEN Raise(ValidationError)
         ELSE IF Truthy(client._bg_name) \/ Truthy(client._bg_version)
         THEN Raise(ValidationError)
         ELSE IF system.v.instances = <<>> THEN Raise(ValidationError)
         ELSE IF ~Truthy(system.v.max_instances)
         THEN Ok([system EXCEPT !.v.max_instances = PyInt(Len(system.v.instances))])
         ELSE Ok(system)
    ELSE IF ~client.has_commands THEN Raise(AttributeError)
    ELSE Ok(System(
            [name |-> PyOr(name, PyOr(environ.BG_NAME, client._bg_name)),
             description |-> IF Truthy(client.doc) /\ ~Truthy(description)
                             THEN PyStr(FirstLine(client.doc.v))
                             ELSE description,
             version |-> PyOr(version, PyOr(environ.BG_VERSION, client._bg_version)),
             icon_name |-> icon_name,
             commands |-> client._commands,
             max_instances |-> PyOr(max_instances, PyInt(DefaultMaxInstances)),
             instances |-> <<inst_name>>,
             metadata |-> metadata,
             display_name |-> display_name]))

\* The keyword arguments of Plugin(client, ..)
PluginDefaults ==
    [system |-> PyNone, name |-> PyNone, description |-> PyNone, version |-> PyNone,
     icon_name |-> PyNone, instance_name |-> PyNone, metadata |-> PyNone,
     max_concurrent |-> PyNone, display_name |-> PyNone, max_instances |-> PyNone]

\* Plugin.__init__ from line 223 on: the Plugin object, or the error raised
Plugin__init__(client, kw, environ) ==
    LET max_concurrent == PyOr(kw.max_concurrent, PyInt(DefaultMaxConcurrent))
        instance_name ==
            PyOr(kw.instance_name,
                 IF environ.BG_INSTANCE_NAME = PyNone THEN PyStr(sDefault)
                 ELSE environ.BG_INSTANCE_NAME)
        metadata == PyOr(kw.metadata, EmptyDict)
        system == _setup_system(client, instance_name, kw.system, kw.name,
                                kw.description, kw.version, kw.icon_name, metadata,
                                kw.display_name, kw.max_instances, environ)
    IN IF ~system.ok THEN system
       ELSE Ok([client |-> client,
                given |-> kw,
                max_concurrent |-> max_concurrent,
                instance_name |-> instance_name,
                metadata |-> metadata,
                instance |-> PyNone,
                admin_processor |-> PyNone,
                request_processor |-> PyNone,
                shutdown_event |-> FALSE,
                system |-> system.val,
                unique_name |-> <<system.val.v.name, instance_name, system.val.v.version>>])

\* What the registry answers during a startup: whether the system is found at
\* first, whether creating it succeeds or conflicts, whether it is found after
\* a conflict, whether the system found has this plugin's instance.  The
\* registry adds the instance that update_system names.
Answers == [found : BOOLEAN, created : BOOLEAN, found_again : BOOLEAN,
            has_instance : BOOLEAN]

sOther == <<"o","t","h","e","r">>

\* Plugin._initialize_system: the System the registry returns
_initialize_system(plugin, answer) ==
    IF ~answer.found /\ answer.created THEN Ok(plugin.system)
    ELSE IF ~answer.found /\ ~answer.found_again THEN Raise(PluginValidationError)
    ELSE LET existing_system ==
                 [plugin.system EXCEPT !.v.instances =
                     IF answer.has_instance THEN <<plugin.instance_name>>
                     ELSE <<PyStr(sOther)>>]
         IN IF ~has_instance(existing_system, plugin.instance_name)
            THEN Ok([existing_system EXCEPT !.v.instances = Append(@, plugin.instance_name)])
            ELSE Ok(existing_system)

\* Plugin._initialize_instance: the Instance the registry returns
_initialize_instance(plugin, system) ==
    IF ~has_instance(system, plugin.instance_name) THEN Raise(PluginValidationError)
    ELSE Ok([t |-> "Instance",
             v |-> [name |-> plugin.instance_name, status |-> "INITIALIZING"]])

\* Plugin._initialize_processors: the admin and the request RequestProcessor
_initialize_processors(plugin) ==
    [admin_processor |-> [t |-> "RequestProcessor",
                          v |-> [max_workers |-> PyInt(AdminWorkers), started |-> FALSE]],
     request_processor |-> [t |-> "RequestProcessor",
                            v |-> [max_workers |-> plugin.max_concurrent,
                                   started |-> FALSE]]]

\* Plugin._startup
_startup(plugin, answer) ==
    LET s == _initialize_system(plugin, answer)
    IN IF ~s.ok THEN [plugin |-> plugin, ok |-> FALSE, err |-> s.err]
       ELSE LET p1 == [plugin EXCEPT !.system = s.val]
                i == _initialize_instance(p1, s.val)
            IN IF ~i.ok THEN [plugin |-> p1, ok |-> FALSE, err |-> i.err]
               ELSE LET procs == _initialize_processors(p1)
                    IN [plugin |->
                           [p1 EXCEPT !.instance = i.val,
                                      !.admin_processor =
                                          [procs.admin_processor EXCEPT !.v.started = TRUE],
                                      !.request_processor =
                                          [procs.request_processor EXCEPT !.v.started = TRUE]],
                        ok |-> TRUE, err |-> ""]

\* The clients: _bg_name, _bg_version, the docstring, _commands
Clients ==
    {[_bg_name |-> PyNone, _bg_version |-> PyNone, doc |-> PyNone,
      has_commands |-> FALSE, _commands |-> <<>>],
     [_bg_name |-> PyNone, _bg_version |-> PyNone, doc |-> PyStr(sDoc),
      has_commands |-> TRUE, _commands |-> <<>>],
     [_bg_name |-> PyStr(sN), _bg_version |-> PyStr(sV), doc |-> PyNone,
      has_commands |-> TRUE, _commands |-> <<>>]}

\* The System objects given as `system`
GivenSystems ==
    LET S == [name |-> PyStr(sN), description |-> PyNone, version |-> PyStr(sV),
              icon_name |-> PyNone, commands |-> <<>>, max_instances |-> PyNone,
              instances |-> <<PyStr(sDefault)>>, metadata |-> PyNone,
              display_name |-> PyNone]
    IN {System(S), System([S EXCEPT !.instances = <<>>])}

\* The keyword arguments of the constructor: at most one piece of identifying
\* data besides name and version, with or without a System
PluginKwargs ==
    LET identified ==
            {PluginDefaults,
             [PluginDefaults EXCEPT !.name = PyStr(sN)],
             [PluginDefaults EXCEPT !.version = PyStr(sV)],
             [PluginDefaults EXCEPT !.name = PyStr(sN), !.version = PyStr(sV)],
             [PluginDefaults EXCEPT !.description = PyStr(sX)],
             [PluginDefaults EXCEPT !.icon_name = PyStr(sX)],
             [PluginDefaults EXCEPT !.metadata = PyDict([k |-> PyInt(1)])],
             [PluginDefaults EXCEPT !.display_name = PyStr(sX)],
             [PluginDefaults EXCEPT !.max_instances = PyInt(2)]}
    IN {[kw EXCEPT !.system = system, !.max_concurrent = max_concurrent,
                   !.instance_name = instance_name] :
           kw \in identified,
           system \in {PyNone} \cup GivenSystems,
           max_concurrent \in {PyNone, PyInt(3)},
           instance_name \in {PyNone, PyStr(sOther)}}

Environs == {NoEnviron,
             [NoEnviron EXCEPT !.BG_NAME = PyStr(sY), !.BG_INSTANCE_NAME = PyStr(sY)]}

\* Plugin(client, **kw)
NewPlugin(client, kw, environ) ==
    /\ phase = "plugin"
    /\ plugins = <<>>
    /\ last = NoCall
    /\ \E r \in {Plugin__init__(client, kw, environ)} :
         /\ plugins' = IF r.ok THEN <<r.val>> ELSE plugins
         /\ last' = CallOf("Plugin", [client |-> client, kw |-> kw, environ |-> environ], r)
    /\ UNCHANGED <<heap, cmds, models, methods, phase, runs, outputs, modelInit, registry, threads>>

\* plugin._startup(), the first thing run() does
Startup(i, answer) ==
    /\ phase = "plugin"
    /\ i \in DOMAIN plugins
    /\ last.op = "Plugin"
    /\ \E r \in {_startup(plugins[i], answer)} :
         /\ plugins' = [plugins EXCEPT ![i] = r.plugin]
         /\ last' = [op |-> "_startup", n |-> last.n + 1, args |-> [answer |-> answer],
                     ok |-> r.ok, err |-> r.err, val |-> <<>>]
    /\ UNCHANGED <<heap, cmds, models, methods, phase, runs, outputs, modelInit, registry, threads>>

InitPlugin ==
    /\ heap = <<>>
    /\ models = <<>>
    /\ modelInit = <<>>
    /\ cmds = <<>>
    /\ methods = [m \in Methods |-> NewMethod(SigPlain, PyNone)]
    /\ phase = "plugin"
    /\ runs = <<>>
    /\ last = NoCall
    /\ outputs = <<>>
    /\ plugins = <<>>
    /\ registry = NoRegistry
    /\ threads = <<>>

NextPlugin ==
    \/ \E client \in Clients, kw \in PluginKwargs, environ \in Environs :
          NewPlugin(client, kw, environ)
    \/ \E i \in DOMAIN plugins, answer \in Answers : Startup(i, answer)

SpecPlugin == InitPlugin /\ [][NextPlugin]_vars

----------------------------------------------------------------------------
(* Plugins registering with one registry at the same time *)

ConflictError == "ConflictError"

\* A client decorated with @system(bg_name="n", bg_version="1.0")
NamedClient == CHOOSE c \in Clients : c._bg_name # PyNone

\* Two Plugins of the same system, with the instance names "default" and "other"
StartingPlugins ==
    <<Plugin__init__(NamedClient, PluginDefaults, NoEnviron).val,
      Plugin__init__(NamedClient, [PluginDefaults EXCEPT !.instance_name = PyStr(sOther)],
                     NoEnviron).val>>

\* What the registry may hold of the system before the plugins start: nothing,
\* or the system with one instance registered earlier
HeldBefore ==
    {<<>>}
    \cup {<<[StartingPlugins[1].system EXCEPT !.v.instances = <<name>>]>> :
             name \in {PyStr(sX), PyStr(sDefault)}}

\* A thread running plugin._initialize_system() and _initialize_instance()
Registering == [pc |-> "find", existing_system |-> <<>>, err |-> ""]

\* The registry after answering a call
Answered(system, call) == [system |-> system, calls |-> Append(registry.calls, call)]

\* lines 310-314: existing_system = find_unique_system(name, version)
FindSystem(i) ==
    /\ phase = "register"
    /\ threads[i].pc = "find"
    /\ threads' = [threads EXCEPT ![i].existing_system = registry.system,
                                  ![i].pc = IF registry.system = <<>> THEN "create"
                                            ELSE "update"]
    /\ registry' = Answered(registry.system,
                            [by |-> i, op |-> "find_unique_system",
                             found |-> registry.system # <<>>])
    /\ UNCHANGED <<heap, cmds, models, methods, phase, runs, last, outputs, modelInit, plugins>>

\* lines 315-321 where a ConflictError is not caught
CreateSystem_ConflictRaised(i) ==
    /\ phase = "register"
    /\ threads[i].pc = "create"
    /\ IF registry.system = <<>>
       THEN /\ registry' = Answered(<<plugins[i].system>>,
                                    [by |-> i, op |-> "create_system", ok |-> TRUE])
            /\ plugins' = [plugins EXCEPT ![i].system = registry'.system[1]]
            /\ threads' = [threads EXCEPT ![i].pc = "instance"]
       ELSE /\ registry' = Answered(registry.system,
                                    [by |-> i, op |-> "create_system", ok |-> FALSE])
            /\ threads' = [threads EXCEPT ![i].pc = "failed", ![i].err = ConflictError]
            /\ UNCHANGED plugins
    /\ UNCHANGED <<heap, cmds, models, methods, phase, runs, last, outputs, modelInit>>

\* lines 315-321: create_system(self.system) is returned; on ConflictError the
\* system is looked up again
CreateSystem(i) ==
    /\ phase = "register"
    /\ threads[i].pc = "create"
    /\ IF registry.system = <<>>
       THEN /\ registry' = Answered(<<plugins[i].system>>,
                                    [by |-> i, op |-> "create_system", ok |-> TRUE])
            /\ plugins' = [plugins EXCEPT ![i].system = registry'.system[1]]
            /\ threads' = [threads EXCEPT ![i].pc = "instance"]
       ELSE /\ registry' = Answered(registry.system,
                                    [by |-> i, op |-> "create_system", ok |-> FALSE])
            /\ threads' = [threads EXCEPT ![i].pc = "find_again"]
            /\ UNCHANGED plugins
    /\ UNCHANGED <<heap, cmds, models, methods, phase, runs, last, outputs, modelInit>>

\* lines 322-332: the second find_unique_system, PluginValidationError when
\* there is still no system
FindAgain(i) ==
    /\ phase = "register"
    /\ threads[i].pc = "find_again"
    /\ threads' = [threads EXCEPT
                      ![i].existing_system = registry.system,
                      ![i].pc = IF registry.system = <<>> THEN "failed" ELSE "update",
                      ![i].err = IF registry.system = <<>> THEN PluginValidationError
                                 ELSE ""]
    /\ registry' = Answered(registry.system,
                            [by |-> i, op |-> "find_unique_system",
                             found |-> registry.system # <<>>])
    /\ UNCHANGED <<heap, cmds, models, methods, phase, runs, last, outputs, modelInit, plugins>>

\* lines 334-347: update_system(existing_system.id, new_commands=.., ..,
\* add_instance=Instance(name) when existing_system has no such instance); the
\* registry applies the update to the system it holds and returns it
UpdateSystem(i) ==
    /\ phase = "register"
    /\ threads[i].pc = "update"
    /\ LET existing_system == threads[i].existing_system[1]
           mine == plugins[i].system.v
           add_instance == IF ~has_instance(existing_system, plugins[i].instance_name)
                           THEN <<plugins[i].instance_name>> ELSE <<>>
           held == registry.system[1]
           updated == [held EXCEPT
                         !.v.commands = mine.commands,
                         !.v.metadata = mine.metadata,
                         !.v.description = mine.description,
                         !.v.display_name = mine.display_name,
                         !.v.icon_name = mine.icon_name,
                         !.v.instances =
                             IF add_instance # <<>> /\ ~has_instance(held, add_instance[1])
                             THEN Append(@, add_instance[1]) ELSE @]
       IN /\ registry' = Answered(<<updated>>,
                                  [by |-> i, op |-> "update_system",
                                   add_instance |-> add_instance])
          /\ plugins' = [plugins EXCEPT ![i].system = updated]
    /\ threads' = [threads EXCEPT ![i].pc = "instance"]
    /\ UNCHANGED <<heap, cmds, models, methods, phase, runs, last, outputs, modelInit>>

\* lines 349-358: _initialize_instance
InitializeInstance(i) ==
    /\ phase = "register"
    /\ threads[i].pc = "instance"
    /\ \E r \in {_initialize_instance(plugins[i], plugins[i].system)} :
         IF r.ok
         THEN /\ plugins' = [plugins EXCEPT ![i].instance = r.val]
              /\ threads' = [threads EXCEPT ![i].pc = "done"]
              /\ registry' = Answered(registry.system,
                                      [by |-> i, op |-> "initialize_instance"])
         ELSE /\ threads' = [threads EXCEPT ![i].pc = "failed", ![i].err = r.err]
              /\ UNCHANGED <<plugins, registry>>
    /\ UNCHANGED <<heap, cmds, models, methods, phase, runs, last, outputs, modelInit>>

InitRegister ==
    /\ heap = <<>>
    /\ models = <<>>
    /\ modelInit = <<>>
    /\ cmds = <<>>
    /\ methods = [m \in Methods |-> NewMethod(SigPlain, PyNone)]
    /\ phase = "register"
    /\ runs = <<>>
    /\ last = NoCall
    /\ outputs = <<>>
    /\ plugins = StartingPlugins
    /\ \E held \in HeldBefore : registry = [system |-> held, calls |-> <<>>]
    /\ threads = [i \in DOMAIN plugins |-> Registering]

NextRegister ==
    \/ \E i \in DOMAIN threads : FindSystem(i)
    \/ \E i \in DOMAIN threads : CreateSystem(i)
    \/ \E i \in DOMAIN threads : FindAgain(i)
    \/ \E i \in DOMAIN threads : UpdateSystem(i)
    \/ \E i \in DOMAIN threads : InitializeInstance(i)

SpecRegister == InitRegister /\ [][NextRegister]_vars

----------------------------------------------------------------------------
(* A Plugin running: run(), the admin messages, the requests validated *)

RequestProcessingError == "RequestProcessingError"
DiscardMessageException == "DiscardMessageException"

MaxMessages == 2
MaxRequests == 2

\* str.upper()
Upper(s) == [i \in DOMAIN s |-> UpperChar(s[i])]

\* Plugin._validate_system(request): request_system is the request's `system`
_validate_system(plugin, request_system) ==
    IF Upper(PyOr(request_system, PyStr(<<>>)).v) # Upper(plugin.system.v.name.v)
    THEN Raise(DiscardMessageException)
    ELSE Ok(PyNone)

\* _validate_running that lets every request through
_validate_running_NeverRaises(plugin) == Ok(PyNone)

\* Plugin._validate_running(request)
_validate_running(plugin) ==
    IF plugin.shutdown_event THEN Raise(RequestProcessingError) ELSE Ok(PyNone)

\* The plugin run() is called on
RunningPlugin == StartingPlugins[1]

\* run(), line 260: _startup(), which may raise
RunStartup(answer) ==
    /\ phase = "run"
    /\ threads.main = "startup"
    /\ \E r \in {_startup(plugins[1], answer)} :
         /\ plugins' = <<r.plugin>>
         /\ threads' = [threads EXCEPT !.main = IF r.ok THEN "wait" ELSE "raised"]
    /\ UNCHANGED <<heap, cmds, models, methods, phase, runs, last, outputs, modelInit, registry>>

\* run(), line 264: shutdown_event.wait() returns once the event is set
WaitReturns ==
    /\ phase = "run"
    /\ threads.main = "wait"
    /\ plugins[1].shutdown_event
    /\ threads' = [threads EXCEPT !.main = "shutdown"]
    /\ UNCHANGED <<heap, cmds, models, methods, phase, runs, last, outputs, modelInit, plugins, registry>>

\* run(), lines 265-268: the wait is interrupted
WaitInterrupted ==
    /\ phase = "run"
    /\ threads.main = "wait"
    /\ threads' = [threads EXCEPT !.main = "shutdown"]
    /\ UNCHANGED <<heap, cmds, models, methods, phase, runs, last, outputs, modelInit, plugins, registry>>

\* _shutdown(), line 286: shutdown_event.set()
ShutdownSetsEvent ==
    /\ phase = "run"
    /\ threads.main = "shutdown"
    /\ plugins' = [plugins EXCEPT ![1].shutdown_event = TRUE]
    /\ threads' = [threads EXCEPT !.main = "shutdown_request"]
    /\ UNCHANGED <<heap, cmds, models, methods, phase, runs, last, outputs, modelInit, registry>>

\* _shutdown(), line 289: request_processor.shutdown()
ShutdownRequestProcessor ==
    /\ phase = "run"
    /\ threads.main = "shutdown_request"
    /\ plugins' = [plugins EXCEPT ![1].request_processor.v.started = FALSE]
    /\ threads' = [threads EXCEPT !.main = "shutdown_admin"]
    /\ UNCHANGED <<heap, cmds, models, methods, phase, runs, last, outputs, modelInit, registry>>

\* _shutdown(), line 290: admin_processor.shutdown()
ShutdownAdminProcessor ==
    /\ phase = "run"
    /\ threads.main = "shutdown_admin"
    /\ plugins' = [plugins EXCEPT ![1].admin_processor.v.started = FALSE]
    /\ threads' = [threads EXCEPT !.main = "terminated"]
    /\ UNCHANGED <<heap, cmds, models, methods, phase, runs, last, outputs, modelInit, registry>>

\* The admin processor's one worker is free to take a message
AdminTakes ==
    /\ phase = "run"
    /\ plugins[1].admin_processor # PyNone
    /\ plugins[1].admin_processor.v.started
    /\ threads.admin = "idle"
    /\ threads.handled < MaxMessages

\* _start(): the instance is reported RUNNING
Start ==
    /\ AdminTakes
    /\ plugins' = [plugins EXCEPT ![1].instance.v.status = "RUNNING"]
    /\ registry' = Answered(registry.system,
                            [op |-> "update_instance_status", status |-> "RUNNING"])
    /\ threads' = [threads EXCEPT !.handled = @ + 1]
    /\ UNCHANGED <<heap, cmds, models, methods, phase, runs, last, outputs, modelInit>>

\* _status(): a heartbeat
Status ==
    /\ AdminTakes
    /\ registry' = Answered(registry.system, [op |-> "instance_heartbeat"])
    /\ threads' = [threads EXCEPT !.handled = @ + 1]
    /\ UNCHANGED <<heap, cmds, models, methods, phase, runs, last, outputs, modelInit, plugins>>

\* _stop(), line 431: shutdown_event.set()
StopSetsEvent ==
    /\ AdminTakes
    /\ plugins' = [plugins EXCEPT ![1].shutdown_event = TRUE]
    /\ threads' = [threads EXCEPT !.admin = "report", !.handled = @ + 1]
    /\ UNCHANGED <<heap, cmds, models, methods, phase, runs, last, outputs, modelInit, registry>>

\* _stop(), lines 432-434: the instance is reported STOPPED
StopReports ==
    /\ phase = "run"
    /\ threads.admin = "report"
    /\ plugins' = [plugins EXCEPT ![1].instance.v.status = "STOPPED"]
    /\ registry' = Answered(registry.system,
                            [op |-> "update_instance_status", status |-> "STOPPED"])
    /\ threads' = [threads EXCEPT !.admin = "idle"]
    /\ UNCHANGED <<heap, cmds, models, methods, phase, runs, last, outputs, modelInit>>

\* The `system` of the requests received
RequestSystems == {PyNone, PyStr(sN), PyStr(<<"N">>), PyStr(sX)}

\* A worker of the request processor validates a request with
\* validation_funcs = [_validate_system, _validate_running], in this order,
\* up to the first that raises
ValidateRequest(request_system) ==
    /\ phase = "run"
    /\ plugins[1].request_processor # PyNone
    /\ last.n < MaxRequests
    /\ \E s \in {_validate_system(plugins[1], request_system)},
          r \in {_validate_running(plugins[1])} :
         last' = [op |-> "validate", n |-> last.n + 1,
                  args |-> [system |-> request_system],
                  running |-> s.ok,
                  ok |-> s.ok /\ r.ok,
                  err |-> IF ~s.ok THEN s.err ELSE IF ~r.ok THEN r.err ELSE ""]
    /\ UNCHANGED <<heap, cmds, models, methods, phase, runs, outputs, modelInit, plugins, registry, threads>>

InitRun ==
    /\ heap = <<>>
    /\ models = <<>>
    /\ modelInit = <<>>
    /\ cmds = <<>>
    /\ methods = [m \in Methods |-> NewMethod(SigPlain, PyNone)]
    /\ phase = "run"
    /\ runs = <<>>
    /\ last = NoCall
    /\ outputs = <<>>
    /\ plugins = <<RunningPlugin>>
    /\ registry = NoRegistry
    /\ threads = [main |-> "startup", admin |-> "idle", handled |-> 0]

NextRun ==
    \/ \E answer \in Answers : RunStartup(answer)
    \/ WaitReturns
    \/ WaitInterrupted
    \/ ShutdownSetsEvent
    \/ ShutdownRequestProcessor
    \/ ShutdownAdminProcessor
    \/ Start
    \/ Status
    \/ StopSetsEvent
    \/ StopReports
    \/ \E request_system \in RequestSystems : ValidateRequest(request_system)

SpecRun == InitRun /\ [][NextRun]_vars

----------------------------------------------------------------------------
(* Properties of the compiled client (under Spec) *)

\* <<i, c>>: Command c of the list returned by run i
Returns == {rc \in (DOMAIN runs) \X (DOMAIN cmds) :
               runs[rc[1]].ok /\ rc[2] \in DOMAIN runs[rc[1]].val}
Cmd(rc) == runs[rc[1]].snapshot[rc[2]]          \* its value when it was returned
Ids(rc) == runs[rc[1]].params[rc[2]]            \* the ids of its parameters
MethodOf(rc) == methods[Cmd(rc).name]
FormalsOf(rc) == Tail(MethodOf(rc).formals)     \* the formals after the receiver
DeclaredIds(rc) == MethodOf(rc).cmdDeclared \o MethodOf(rc).parameters
Undeclared(rc) == MethodOf(rc).parameters = <<>> /\ MethodOf(rc).cmdDeclared = <<>>
FormalNamed(rc, key) == {i \in DOMAIN FormalsOf(rc) : FormalsOf(rc)[i].name = key}

\* C1: the keys of the top-level parameters of every Command parse_client
\* returns are pairwise distinct
C1_UniqueKeys ==
    \A rc \in Returns :
        \A i, j \in DOMAIN Cmd(rc).parameters :
            i # j => Cmd(rc).parameters[i].key # Cmd(rc).parameters[j].key

\* C4: compiling the same client again returns the same Commands, and leaves
\* the Commands and Parameters returned before as they were
C4_NoSharedState ==
    /\ \A i \in DOMAIN runs :
          runs[i].ok =>
             runs[i].snapshot =
                [c \in DOMAIN runs[i].val |-> DeepCommand(heap, cmds, runs[i].val[c])]
    /\ \A i, j \in DOMAIN runs :
          i < j /\ runs[i].io = runs[j].io /\ runs[i].ok =>
             runs[j].ok /\ runs[j].snapshot = runs[i].snapshot

\* C7: a method with no declared Parameter compiles to one Parameter per formal
\* of the bound method, in order, with the formal's name as key and optional
\* False; for (a, b=5): a without default, b with default 5
C7_OnePerFormal ==
    \A rc \in Returns :
        Undeclared(rc) =>
            /\ Len(Cmd(rc).parameters) = Len(FormalsOf(rc))
            /\ \A i \in DOMAIN FormalsOf(rc) :
                  /\ Cmd(rc).parameters[i].key = FormalsOf(rc)[i].name
                  /\ Cmd(rc).parameters[i].optional = PyFalse
            /\ MethodOf(rc).formals = SigPlain =>
                  /\ Cmd(rc).parameters[1].default = PyNone
                  /\ Cmd(rc).parameters[2].default = PyInt(5)

C7_Witness ==
    \E rc \in Returns :
        /\ Undeclared(rc)
        /\ MethodOf(rc).formals = SigPlain
        /\ Len(Cmd(rc).parameters) = 2

\* The default a top-level Parameter was declared with (None when the merge
\* built it for a formal)
OwnDefault(rc, i) ==
    IF Ids(rc)[i] \in DOMAIN MethodOf(rc).kwargs
    THEN MethodOf(rc).kwargs[Ids(rc)[i]].default
    ELSE PyNone

\* C8: a top-level Parameter whose key names a formal with a default value d has
\* default d when its own default is unset, and keeps its own default otherwise
C8_DefaultAdoption ==
    \A rc \in Returns :
        \A i \in DOMAIN Cmd(rc).parameters :
            \A f \in FormalNamed(rc, Cmd(rc).parameters[i].key) :
                FormalsOf(rc)[f].default # Empty =>
                    Cmd(rc).parameters[i].default =
                        IF OwnDefault(rc, i) = PyNone
                        THEN FormalsOf(rc)[f].default
                        ELSE OwnDefault(rc, i)

\* C9: a declared Parameter ends with optional False exactly when it was declared
\* without `optional` and its key names a formal without default; otherwise it
\* keeps the optional it was declared with
C9_OptionalExactlyWhenRequired ==
    \A rc \in Returns :
        \A i \in DOMAIN Cmd(rc).parameters :
            Ids(rc)[i] \in DOMAIN MethodOf(rc).kwargs =>
                LET declared == MethodOf(rc).kwargs[Ids(rc)[i]].optional
                    required == \E f \in FormalNamed(rc, Cmd(rc).parameters[i].key) :
                                    FormalsOf(rc)[f].default = Empty
                IN Cmd(rc).parameters[i].optional =
                       IF declared = PyNone /\ required THEN PyFalse ELSE declared

\* The formals no declared Parameter covers, in formal order
Uncovered(rc) ==
    SelectSeq(FormalsOf(rc),
              LAMBDA f : \A i \in DOMAIN DeclaredIds(rc) :
                            MethodOf(rc).kwargs[DeclaredIds(rc)[i]].key # f.name)

\* C10: the parameters of a merged Command are the declared Parameters (those of
\* @command(parameters=..), then those of the @parameter decorators, as applied),
\* then one Parameter per uncovered formal, in formal order
C10_DeclaredThenSynthesized ==
    \A rc \in Returns :
        LET d == DeclaredIds(rc)
            u == Uncovered(rc)
        IN /\ Len(Ids(rc)) = Len(d) + Len(u)
           /\ SubSeq(Ids(rc), 1, Len(d)) = d
           /\ \A i \in DOMAIN u :
                 /\ Ids(rc)[Len(d) + i] \notin DOMAIN MethodOf(rc).kwargs
                 /\ Cmd(rc).parameters[Len(d) + i].key = u[i].name

\* Method `name` compiled on its own from heap h and Commands cs: the merge,
\* the display definitions, then each Parameter
CompiledAlone(h, cs, name, io) ==
    Bind(_initialize_command(h, cs, name, methods[name], io[name]),
         LAMBDA c :
           IF ~c.ok THEN c
           ELSE Bind(InitializeAll(c.heap, models, c.cmds[c.val].parameters,
                                   methods[name], 1),
                     LAMBDA r : IF r.ok THEN What(r.heap, c.cmds, c.val)
                                ELSE Broke(r.heap, c.cmds, r.err)))

\* The annotated methods from MethodNames[i] on compiled one after the other,
\* up to and including the first that fails: the results, after those in acc
RECURSIVE StepsFrom(_, _, _, _, _)
StepsFrom(h, cs, io, i, acc) ==
    IF i > Len(MethodNames) THEN acc
    ELSE IF ~IsAnnotated(methods[MethodNames[i]]) THEN StepsFrom(h, cs, io, i + 1, acc)
    ELSE Bind(CompiledAlone(h, cs, MethodNames[i], io),
              LAMBDA c : IF c.ok
                         THEN StepsFrom(c.heap, c.cmds, io, i + 1,
                                        Append(acc, [ok |-> TRUE]))
                         ELSE Append(acc, [ok |-> FALSE, err |-> c.err]))

\* What a call of parse_client has to give when the methods compile, one after
\* the other, to the results in `steps`: the error of the first that fails and
\* no list, or the list of all of them
FailFast(steps, run) ==
    IF \E i \in DOMAIN steps : ~steps[i].ok
    THEN LET first == CHOOSE i \in DOMAIN steps :
                         ~steps[i].ok /\ \A j \in 1..(i - 1) : steps[j].ok
         IN ~run.ok /\ run.err = steps[first].err /\ run.val = <<>>
    ELSE run.ok /\ Len(run.val) = Len(steps)

\* C17: parse_client raises the error of the first annotated method, in dir()
\* order, that fails to compile, and returns no list then, whatever compiled
\* before; it returns one Command per annotated method otherwise
C17_FailFast ==
    [][runs' # runs =>
         \E steps \in {StepsFrom(heap, cmds, runs'[Len(runs')].io, 1, <<>>)} :
             FailFast(steps, runs'[Len(runs')])]_vars

\* the first compilation fails at m2, after m1 compiled
C17_Witness ==
    /\ Len(runs) = 1 /\ ~runs[1].ok /\ runs[1].val = <<>>
    /\ IsAnnotated(methods["m1"])
    /\ methods["m2"].command # NoCommand
    /\ cmds[methods["m2"].command].name = "m2"

----------------------------------------------------------------------------
(* Properties of the normalizer (under SpecNorm) *)

Called == last.op = "_initialize_parameter"

\* C2: in the tree a call returns, every Parameter with a non-empty `parameters`
\* list has type "Dictionary"
C2_NestedIsDictionary ==
    Called /\ last.ok =>
        \A id \in TreeIds(heap, last.id) :
            Len(heap[id].parameters) > 0 => heap[id].type = PyStr(sDictionary)

\* a returned tree three levels deep: the children of the middle Parameter came
\* from its model, and neither it nor the root was declared as a dictionary
C2_Witness ==
    /\ Called /\ last.ok
    /\ \E id \in TreeIds(heap, last.id) \ {last.id} :
          /\ Len(heap[id].parameters) > 0
          /\ heap[id].model # NoModel
    /\ \E id \in TreeIds(heap, last.id) :
          Len(heap[id].parameters) > 0 /\ heap[id].type_info # PyNone

\* C3: a call on a Parameter that is as a call returned it succeeds and leaves
\* it equal to what it was
C3_Idempotent ==
    Called /\ last.again => last.ok /\ <<last.after>> = last.before

\* C5: the Parameters of a model class are never changed, and a Parameter built
\* on a model gets the children every other Parameter built on it got
C5_ModelReadOnly ==
    /\ \A i \in DOMAIN models : DeepList(heap, models[i]) = modelInit[i]
    /\ Called /\ heap[last.id].model # NoModel /\ last.before = <<>> =>
          \A other \in DOMAIN outputs :
              /\ outputs[other].model = heap[last.id].model
              /\ heap[other].parameters = models[heap[other].model]
              /\ heap[last.id].parameters \in {<<>>, models[heap[last.id].model]}
              => /\ last.ok
                 /\ last.after.parameters = outputs[other].parameters

\* C6: no Parameter of the tree a call returns holds a model
C6_NoModelRetained ==
    Called /\ last.ok =>
        \A id \in TreeIds(heap, last.id) : heap[id].model = NoModel

\* a call with keyword arguments, on a model and without `parameters`, returned
BuiltOnModel ==
    /\ Called /\ last.ok /\ last.kw # <<>>
    /\ last.kw[1].model # NoModel /\ last.kw[1].parameters = <<>>

\* The children of the returned Parameter that have a default
WithDefault == {i \in DOMAIN last.after.parameters :
                   last.after.parameters[i].default # PyNone}

\* key -> default over the children that have a default
ChildDefaults ==
    [k \in {last.after.parameters[i].key : i \in WithDefault} |->
        last.after.parameters[CHOOSE i \in WithDefault :
                                  last.after.parameters[i].key = k].default]

\* C12: a Parameter built on a model, not nullable and declared without default,
\* gets as default the mapping key -> default over exactly its children that
\* have a default (0 or False included); a nullable one, or one declared with a
\* default, keeps what it was declared with
C12_ModelDefault ==
    BuiltOnModel =>
        last.after.default =
            IF ~Truthy(last.kw[1].nullable) /\ last.kw[1].default = PyNone
            THEN PyDict(ChildDefaults)
            ELSE last.kw[1].default

----------------------------------------------------------------------------
(* Properties of the functions called one at a time (under SpecCall) *)

\* C11: _validate_kwargness succeeds exactly when no formal has the key, is_kwarg
\* is not False and the signature has a **kwargs formal, or a formal has the key,
\* is_kwarg is not True and that formal is not positional-only; it raises
\* PluginParamError otherwise, and returns no default in the first case
C11_KwargnessValidation ==
    last.op = "_validate_kwargness" =>
        LET sig == Tail(last.args.sig)
            found == {i \in DOMAIN sig : sig[i].name = last.args.key}
            catchAll == \E i \in DOMAIN sig : sig[i].kind = VAR_KEYWORD
            byKwargs == found = {} /\ last.args.is_kwarg # PyFalse /\ catchAll
            byFormal == /\ found # {}
                        /\ last.args.is_kwarg # PyTrue
                        /\ \A i \in found : sig[i].kind # POSITIONAL_ONLY
        IN /\ last.ok <=> (byKwargs \/ byFormal)
           /\ ~last.ok => last.err = PluginParamError
           /\ byKwargs => last.val = <<PyNone>>

\* is_kwarg=True, a **kwargs formal and no formal of that key: accepted, nothing
\* to adopt
C11_Witness ==
    /\ last.op = "_validate_kwargness"
    /\ last.args.is_kwarg = PyTrue
    /\ last.args.sig = SigFull
    /\ last.args.key = "k"
    /\ last.ok /\ last.val = <<PyNone>>

\* The canonical type the specification states for a `type` value
Canonical(x) ==
    CASE x = tStr -> sString
      [] x = tInt -> sInteger
      [] x = tFloat -> sFloat
      [] x = tBool -> sBoolean
      [] x = tDict -> sDictionary
      [] x \in {PyStr(sFile), PyStr(sFileUpper), PyStr(sFILE)} -> sBytes
      [] x \in {PyStr(sDatetime), PyStr(sDateTime), PyStr(sDATETIME)} -> sDateTime
      [] x \in {PyNone, PyStr(<<>>), PyInt(0), PyFalse} -> sAny
      [] x = tList -> <<"<","C","l","a","s","s"," ","'","L","i","s","t","'",">">>
      [] x = PyInt(1) -> <<"1">>
      [] x = PyTrue -> sTrue
      [] x = PyStr(sMyType) -> <<"M","y"," ","T","y","p","e","2","B">>
      [] x = PyStr(sBase64Lower) -> sBase64
      [] OTHER -> x.v

sGridfs == <<"g","r","i","d","f","s">>

\* C13: _format_type gives String, Integer, Float, Boolean, Dictionary for the
\* type objects, Bytes and DateTime for "file" and "datetime" in any case, Any
\* for None and falsy values, the title-cased string form otherwise; and a
\* Parameter of type Bytes has type_info {"storage": "gridfs"}
C13_TypeCanonicalization ==
    /\ last.op = "_format_type" =>
          last.val = <<PyStr(Canonical(last.args.type))>>
    /\ last.op = "_initialize_parameter" /\ phase = "call" =>
          /\ "func" \notin DOMAIN last.args => last.ok
          /\ last.ok =>
                /\ "model" \notin DOMAIN last.args \/ last.args.model = NoModel =>
                      last.val[1].type = PyStr(Canonical(last.args.type))
                /\ last.val[1].type = PyStr(sBytes) =>
                      last.val[1].type_info = PyDict([storage |-> PyStr(sGridfs)])

\* Parameter(type="file") normalized: Bytes, stored in gridfs
C13_Witness ==
    /\ last.op = "_initialize_parameter" /\ phase = "call" /\ last.ok
    /\ last.args.type = PyStr(sFile)
    /\ last.val[1].type = PyStr(sBytes)
    /\ last.val[1].type_info = PyDict([storage |-> PyStr(sGridfs)])

FormattedChoices == last.op = "_format_choices"
GivenChoices == last.args.choices
NoTypeGiven == GivenChoices.t # "dict" \/ "type" \notin DOMAIN GivenChoices.v
GivenValue == IF GivenChoices.t = "dict" THEN GivenChoices.v.value ELSE GivenChoices

\* The type the specification infers from a value
InferredType(value) ==
    IF IsString(value)
    THEN (IF \/ StartsWith(value.v, sHttp \o <<":","/","/">>)
             \/ StartsWith(value.v, sHttp \o <<"s",":","/","/">>)
          THEN PyStr(sUrl) ELSE PyStr(sCommand))
    ELSE IF value.t = "dict" /\ "command" \in DOMAIN value.v THEN PyStr(sCommand)
    ELSE PyStr(sStatic)

\* C14: choices given without `type` resolve to the type inferred from the
\* value: url for a string with an HTTP(S) scheme, command for any other string
\* and for a mapping with the key "command", static otherwise; and
\* {"value": ["x","y"], "display": "select"} resolves to static, select, strict,
\* no details
C14_InferredType ==
    /\ FormattedChoices /\ last.ok /\ last.val # <<PyNone>> /\ NoTypeGiven =>
          last.val[1].v.type = InferredType(GivenValue)
    /\ FormattedChoices /\ Truthy(GivenChoices) /\ GivenChoices.t = "dict" /\ NoTypeGiven
          /\ "value" \in DOMAIN GivenChoices.v /\ GivenValue = CommandDict =>
          last.ok
    /\ FormattedChoices
          /\ GivenChoices = PyDict([value |-> ListXY, display |-> PyStr(sSelect)]) =>
          last.val = <<Choices(PyStr(sStatic), PyStr(sSelect), ListXY, PyTrue, EmptyDict)>>

\* The Choices returned
Resolved == FormattedChoices /\ last.ok /\ last.val # <<PyNone>>
ResolvedChoices == last.val[1].v

\* The details the specification states for a Choices c resolved from choices:
\* <<>> when it states that there is no such Choices
DetailsOf(choices, c) ==
    LET parsed ==
            IF c.type = PyStr(sCommand)
            THEN IF IsString(c.value) THEN parse(c.value, "func")
                 ELSE IF c.value.t = "dict" /\ "command" \in DOMAIN c.value.v
                      THEN parse(c.value.v.command, "func")
                      ELSE Raise(PluginParamError)
            ELSE IF c.type = PyStr(sUrl) THEN parse(c.value, "url")
            ELSE IF c.type = PyStr(sStatic) /\ c.value.t = "dict"
                 THEN IF choices.t = "dict" /\ "key_reference" \in DOMAIN choices.v
                      THEN LET r == parse(choices.v.key_reference, "reference")
                           IN IF r.ok THEN Ok(PyDict([key_reference |-> r.val])) ELSE r
                      ELSE Raise(PluginParamError)
            ELSE IF c.type = PyStr(sStatic) THEN Ok(EmptyDict)
            ELSE Ok(c.details)
    IN IF parsed.ok THEN <<parsed.val>> ELSE <<>>

\* C21: the details of a Choices returned by _format_choices match its type:
\* the parsed command of the string value or of the mapping's "command" entry
\* for command, the parsed URL for url, {key_reference: parsed reference} for
\* static with a mapping value, {} for static with any other value; and a
\* static mapping value without "key_reference" yields no Choices
C21_DetailsMatchType ==
    /\ Resolved => <<ResolvedChoices.details>> = DetailsOf(GivenChoices, ResolvedChoices)
    /\ FormattedChoices /\ GivenChoices.t = "dict"
          /\ "value" \in DOMAIN GivenChoices.v /\ GivenValue.t = "dict"
          /\ Get(GivenChoices, "type", PyStr(sStatic)) = PyStr(sStatic)
          /\ "key_reference" \notin DOMAIN GivenChoices.v =>
          ~last.ok

\* {"value": {"x": [..]}, "key_reference": "${x}"} resolves to static with the
\* parsed reference
C21_Witness ==
    /\ Resolved
    /\ GivenChoices = PyDict([value |-> OtherDict, key_reference |-> PyStr(sRefX)])
    /\ ResolvedChoices.type = PyStr(sStatic)
    /\ ResolvedChoices.details = PyDict([key_reference |-> parse(PyStr(sRefX), "reference").val])

\* A mapping with a non-empty value that declares a type
DeclaresType ==
    /\ FormattedChoices /\ GivenChoices.t = "dict"
    /\ "value" \in DOMAIN GivenChoices.v /\ Truthy(GivenValue)
    /\ Get(GivenChoices, "type", PyNone) # PyNone

\* The shapes of value the specification allows for a declared type; it states
\* none for "reference"
AllowedShape(type, value) ==
    CASE type = PyStr(sCommand) -> value.t \in {"str", "dict"}
      [] type = PyStr(sUrl) -> value.t = "str"
      [] type = PyStr(sStatic) -> value.t \in {"list", "dict"}
      [] OTHER -> type \in Choices_TYPES

\* The display the specification resolves for a mapping: the declared one, or
\* the one inferred from the value
DisplayOf(choices) ==
    IF "display" \in DOMAIN choices.v THEN choices.v.display
    ELSE IF IsString(choices.v.value) \/ PyLen(choices.v.value) > 50 THEN PyStr(sTypeahead)
    ELSE PyStr(sSelect)

\* C22: a mapping that declares a type is accepted only with a supported type
\* and a value of a shape allowed for it; any other declared type or shape
\* raises PluginParamError, and so does a display that is not supported
C22_DeclaredTypeAndShape ==
    /\ DeclaresType /\ last.ok =>
          AllowedShape(GivenChoices.v.type, GivenValue)
    /\ DeclaresType /\ ~AllowedShape(GivenChoices.v.type, GivenValue) =>
          ~last.ok /\ last.err = PluginParamError
    /\ FormattedChoices /\ GivenChoices.t = "dict"
          /\ "value" \in DOMAIN GivenChoices.v /\ HasLen(GivenValue) /\ Truthy(GivenValue)
          /\ DisplayOf(GivenChoices) \notin Choices_DISPLAYS =>
          ~last.ok /\ last.err = PluginParamError

NoDisplayGiven == GivenChoices.t # "dict" \/ "display" \notin DOMAIN GivenChoices.v

\* C23: without a display given, a Choices has display typeahead for a string
\* value, select for a collection of at most 50 elements and typeahead for one
\* of 51 or more; a string or an iterable given as choices resolves with
\* strict true, and so does a mapping without `strict`
C23_InferredDisplay ==
    /\ Resolved /\ NoDisplayGiven =>
          ResolvedChoices.display =
              IF IsString(GivenValue) THEN PyStr(sTypeahead)
              ELSE IF PyLen(GivenValue) <= 50 THEN PyStr(sSelect)
              ELSE PyStr(sTypeahead)
    /\ Resolved /\ (GivenChoices.t # "dict" \/ "strict" \notin DOMAIN GivenChoices.v) =>
          ResolvedChoices.strict = PyTrue

\* a list of 50 strings given as choices: select, strict
C23_Witness ==
    /\ Resolved /\ GivenChoices = ListOf(50)
    /\ ResolvedChoices.display = PyStr(sSelect)
    /\ ResolvedChoices.strict = PyTrue
    /\ PyLen(ResolvedChoices.value) = 50

\* C15: _format_choices raises nothing but PluginParamError
C15_OnlySchemaErrors ==
    FormattedChoices /\ ~last.ok => last.err = PluginParamError

ResolvedDisplay == last.op = "_resolve_display_modifiers"

\* The fields whose value names no URL and no file
ByShape == {f \in Fields : ~NeedsIO(last.args[f])}

\* What the specification states for field f given as v, <<>> for a failure
ShapeOf(f, v) ==
    IF v = PyNone THEN <<v>>
    ELSE IF v.t = "dict" /\ f \in {"schema", "form"} THEN <<v>>
    ELSE IF v.t = "list" /\ f = "form"
         THEN <<PyDict([type |-> PyStr(sFieldset), items |-> v])>>
    ELSE IF v.t = "str" /\ f = "template" THEN <<v>>
    ELSE <<>>

\* C16: each display field resolves by its shape: None stays None, a dict for
\* schema or form is kept, a list for form becomes a fieldset, a plain template
\* string is kept; any other shape raises PluginParamError
C16_DisplayByShape ==
    ResolvedDisplay =>
        /\ (\E f \in ByShape : ShapeOf(f, last.args[f]) = <<>>) =>
               ~last.ok /\ last.err = PluginParamError
        /\ (ByShape = Fields /\ \A f \in Fields : ShapeOf(f, last.args[f]) # <<>>) =>
               last.ok
        /\ last.ok => \A f \in ByShape : <<last.val[1][f]>> = ShapeOf(f, last.args[f])

\* form given as a list together with a schema dict and a plain template
C16_Witness ==
    /\ ResolvedDisplay /\ last.ok
    /\ last.args.form = FormList
    /\ last.args.schema = DisplayDict
    /\ last.args.template = PyStr(sX)
    /\ last.val[1].form = PyDict([type |-> PyStr(sFieldset), items |-> FormList])

\* C20: a Parameter returned by _initialize_parameter with type "Base64" has no
\* default, whether a default was declared for it or the formal parameter it
\* matches has one
C20_Base64NoDefault ==
    last.op = "_initialize_parameter" /\ last.ok
        /\ last.val[1].type = PyStr(sBase64) =>
            last.val[1].default = PyNone

\* type="base64" for the formal b=5 of m(self, a, b=5): the default of the
\* signature is not kept
C20_Witness ==
    /\ last.op = "_initialize_parameter" /\ last.ok
    /\ "func" \in DOMAIN last.args
    /\ last.args.func = SigPlain /\ last.args.key = "b"
    /\ last.args.type = PyStr(sBase64Lower) /\ last.args.default = PyNone
    /\ last.val[1].type = PyStr(sBase64) /\ last.val[1].default = PyNone

----------------------------------------------------------------------------
(* Properties of the Plugin (under SpecPlugin) *)

\* C18: a Plugin constructed without max_concurrent has max_concurrent 1, and
\* its request processor has one worker
C18_DefaultMaxConcurrent ==
    \A i \in DOMAIN plugins :
        plugins[i].given.max_concurrent = PyNone =>
            /\ plugins[i].max_concurrent = PyInt(1)
            /\ plugins[i].request_processor # PyNone =>
                   plugins[i].request_processor.v.max_workers = PyInt(1)

\* The identifying data of the class docstring that the constructor was given
IdentifyingGiven ==
    {f \in {"name", "version", "description", "icon_name", "metadata", "display_name"} :
        last.args.kw[f] # PyNone}

\* C19: a Plugin given a System and any of name, version, description,
\* icon_name, metadata, display_name raises ValidationError, and no Plugin is
\* constructed
C19_SystemOrParameters ==
    last.op = "Plugin" /\ last.args.kw.system # PyNone /\ IdentifyingGiven # {} =>
        ~last.ok /\ last.err = ValidationError /\ plugins = <<>>

----------------------------------------------------------------------------
(* Properties of concurrent registration (under SpecRegister) *)

Calls == DOMAIN registry.calls
Created(k) == registry.calls[k].op = "create_system" /\ registry.calls[k].ok
Conflicted(k) == registry.calls[k].op = "create_system" /\ ~registry.calls[k].ok
Found(k) == registry.calls[k].op = "find_unique_system" /\ registry.calls[k].found
Updated(k) == registry.calls[k].op = "update_system"

\* The registry did not hold the system when the plugins started
NotRegisteredBefore == registry.system = <<>> \/ \E k \in Calls : Created(k)

AllReturned == \A i \in DOMAIN threads : threads[i].pc \in {"done", "failed"}

\* C24: two plugins with different instance names registering a system that
\* the registry does not hold yet: no PluginValidationError is raised, one
\* create succeeds, the plugin that did not create finds the system (again,
\* after a conflict) and updates it adding its own instance, and a plugin
\* whose create succeeded makes no update
C24_ConcurrentRegistration ==
    NotRegisteredBefore =>
        /\ \A i \in DOMAIN threads : threads[i].pc # "failed"
        /\ Cardinality({k \in Calls : Created(k)}) <= 1
        /\ \A k, l \in Calls :
              Created(k) /\ Updated(l) => registry.calls[l].by # registry.calls[k].by
        /\ \A k \in Calls :
              Conflicted(k) /\ threads[registry.calls[k].by].pc \in {"instance", "done"} =>
                  \E f, u \in Calls :
                      /\ k < f /\ f < u
                      /\ Found(f) /\ registry.calls[f].by = registry.calls[k].by
                      /\ Updated(u) /\ registry.calls[u].by = registry.calls[k].by
        /\ AllReturned =>
              /\ Cardinality({k \in Calls : Created(k)}) = 1
              /\ \A i \in DOMAIN threads :
                    \/ \E k \in Calls : Created(k) /\ registry.calls[k].by = i
                    \/ \E f, u \in Calls :
                          /\ f < u
                          /\ Found(f) /\ registry.calls[f].by = i
                          /\ Updated(u) /\ registry.calls[u].by = i
                          /\ registry.calls[u].add_instance = <<plugins[i].instance_name>>

\* Both plugins found no system, one created it, the other got the conflict,
\* and both have their instance
C24_Witness ==
    /\ NotRegisteredBefore /\ AllReturned
    /\ \E k \in Calls : Conflicted(k)
    /\ \A i \in DOMAIN threads : threads[i].pc = "done" /\ plugins[i].instance # PyNone

----------------------------------------------------------------------------
(* Properties of the running Plugin (under SpecRun) *)

EventSet == plugins[1].shutdown_event
InstanceStatus == IF plugins[1].instance = PyNone THEN "" ELSE plugins[1].instance.v.status
RequestsServed ==
    plugins[1].request_processor # PyNone /\ plugins[1].request_processor.v.started
AdminServed ==
    plugins[1].admin_processor # PyNone /\ plugins[1].admin_processor.v.started

\* C25: the shutdown event, once set, stays set; a request validated while it
\* is set is rejected, by _validate_running with RequestProcessingError when
\* _validate_running is reached; the instance is reported STOPPED only with
\* the event set; the request processor is shut down only with the event set,
\* and the admin processor only after the request processor
C25_ShutdownIsFinal ==
    [][/\ EventSet => EventSet'
       /\ EventSet /\ last' # last =>
             /\ ~last'.ok
             /\ last'.running => last'.err = RequestProcessingError
       /\ InstanceStatus # "STOPPED" /\ InstanceStatus' = "STOPPED" => EventSet
       /\ RequestsServed /\ ~RequestsServed' => EventSet
       /\ AdminServed /\ ~AdminServed' => ~RequestsServed]_vars

\* After _stop and the end of run(), a request for this system is rejected by
\* _validate_running
C25_Witness ==
    /\ phase = "run" /\ threads.main = "terminated"
    /\ EventSet /\ InstanceStatus = "STOPPED"
    /\ ~RequestsServed /\ ~AdminServed
    /\ last.op = "validate" /\ last.running
    /\ ~last.ok /\ last.err = RequestProcessingError

====
